---- MODULE Spec2Model ----
(***************************************************************************)
(* Lesson generation (core/tasks.py generate_lesson_task), the resilient     *)
(* dispatcher it calls (core/services/ai.py generate_text, extract_json)    *)
(* and section improvement (core/tasks.py improve_block_task), with the     *)
(* handlers of fastlesson_bot/handlers/teacher.py around them: submission   *)
(* (lesson_generate, lesson_ai_apply) and the two status pollers.           *)
(*                                                                          *)
(* The model keeps two copies of the GenerationStatus row: `st`, the object *)
(* the task holds in memory, and `db`, the row a poller reads.  A call of   *)
(* status.save(update_fields=[...]) copies the named fields from st to db,  *)
(* or raises and copies nothing.  Every step of the task holds at most one  *)
(* write that commits, so every state of the model is a snapshot a reader   *)
(* can observe.                                                             *)
(***************************************************************************)
EXTENDS Integers, Sequences, FiniteSets, TLC

\* ---------------------------------------------------------------- bounds
\* Longest outline the structure call returns.
MaxHints == 3
\* How many status.save calls of one job may raise.
MaxStatusFaults == 1
\* How many save calls of one improvement task may raise.
MaxImproveFaults == 1
\* Longest raw text given to extract_json on its own, in tokens.
MaxTextLen == 5
\* Most rows of a lesson, largest stored order and number of runs when the
\* renumbering step is run on its own.
MaxRows == 3
MaxOrder == 3
MaxRuns == 2
\* Most credits a user holds when the submission handler runs.
MaxCredits == 2
\* Runs of the notification task that are followed.
MaxNotifyRuns == 5
\* Saves of the lesson row that may raise.
MaxNotifyFaults == 1
\* MAX_ATTEMPTS = 3
MAX_ATTEMPTS == 3
\* Callers of check_rate_limit for one key at the same time.
MaxCallers == 2
\* Largest limit passed to check_rate_limit.
MaxLimit == 2
\* Largest value the counter of the key is followed to: one call over the
\* largest limit.
MaxCounter == MaxLimit + 1
\* Expiries of the key that are followed.
MaxWindows == 1
\* Largest count passed to decrement_generation.
MaxCount == 2
\* Largest stored balance decrement_generation starts from.
MaxBalance == 4
\* Calls of decrement_generation on one object.
MaxCalls == 3
\* Saves of the user row that may raise.
MaxSaveFaults == 1
\* Handlers of one user running at the same time.
MaxHandlers == 3
\* Generations credited by one payment.
PRODUCT_QTY == 50
\* Longest outline of a delivery when the task is delivered twice.
MaxTwiceHints == 2

VARIABLES
    pc,            \* position of the job
    db,            \* persisted GenerationStatus row
    st,            \* the task's in-memory GenerationStatus object
    hints,         \* blocks_hints, the outline list
    i,             \* loop index of `for i, block_topic in enumerate(..., start=1)`
    cur,           \* title, content, has_task parsed for hint i
    blocks,        \* persisted LessonBlock rows of the lesson
    rlist,         \* ids of the rows listed by the reconciliation query
    ridx,          \* index of the reconciliation loop
    writes,        \* history: the ProgressState writes that committed, in order
    statusFaults,  \* history: status.save calls that raised
    failedHints,   \* history: hints whose generation or row creation failed
    outline,       \* history: what the structure call gave ("none" before it)
    excepted,      \* history: the outer handler ran
    reorderFault,  \* history: a write of the reconciliation loop raised
    reordered,     \* history: the reconciliation loop ran to its end
    dispatched,    \* history: generate_text calls issued per unit (0 = outline)
    catalog,       \* the module-level list AI_MODELS
    gpc,           \* position of the generate_text call in progress
    models,        \* its shuffled copy of the catalog
    mi,            \* index of `for model_cfg in models`
    attempt,       \* index of `for attempt in range(2)`
    parsed,        \* its local `parsed`, the last value of extract_json
    invoked,       \* history: backend invocations of this call, per backend
    gresult,       \* what the call gave its caller
    last,          \* history: the latest turn's backend, outcome and usage records
    allUnparsable, \* history: every turn so far got a text without an object
    ipc,           \* position of the improve_block_task run
    iblock,        \* persisted LessonBlock row the task is given
    imp,           \* persisted ImproveStatus row the task is given
    ist,           \* the task's in-memory ImproveStatus object
    iresult,       \* history: improved_content of the dispatcher result
    iblock0,       \* history: the LessonBlock row before the task started
    icalls,        \* history: generate_text calls of the task
    iwrites,       \* history: the task's committed writes, in order
    iFaults,       \* history: save calls of the task that raised
    hsaved,        \* the submitting handler has saved the task id
    polled,        \* what check_lesson_status last showed
    ipolled,       \* what improve_status_handler last showed
    xpc,           \* position of a call of extract_json on its own
    xtext,         \* its argument
    xresult,       \* its return value
    rblocks,       \* LessonBlock rows (id, order) the renumbering step is run on
    rruns,         \* runs of the renumbering step so far
    rwritten,      \* ids of the rows the latest run wrote
    rcomplete,     \* the latest run reached the end of its loop
    rtotal,        \* history: rows written by all runs
    hpc,           \* position of a run of lesson_generate
    credits,       \* persisted User.remaining_generations
    ucredits,      \* remaining_generations of the handler's loaded user object
    huser,         \* a User row exists for the caller
    hlesson,       \* the lesson of the callback: missing, foreign or own
    hrow,          \* a GenerationStatus row exists for the lesson
    hdeducted,     \* history: decrement_generation calls of the run that returned True
    henq,          \* history: generate_lesson_task.delay calls of the run
    hcredits0,     \* history: the persisted credits when the run loaded the user
    tpc,           \* position of each of two deliveries of generate_lesson_task
    tst,           \* the in-memory GenerationStatus object of each delivery
    thints,        \* the length of the outline each delivery got
    ti,            \* the loop index of each delivery
    lstore,        \* the stored remaining_generations of one user
    linit,         \* history: the stored value before any handler ran
    lpc,           \* position of each concurrent handler of that user
    lkind,         \* which handler each one is
    lmem,          \* remaining_generations on each handler's User object
    lspent,        \* history: decrement_generation calls that returned True
    lpaid,         \* history: payments credited
    dmem,          \* remaining_generations on the one User object
    dstore,        \* the stored remaining_generations of that user
    dret,          \* what the last decrement_generation call returned
    dcount,        \* the count of the last call
    dcalls,        \* calls made so far
    dfaults,       \* saves that raised so far
    limit,         \* the limit the callers of check_rate_limit pass
    counter,       \* the value of the redis key, 0 when the key is absent
    ttl,           \* the key's time to live in ticks, 0 when it has none
    cpc,           \* position of each caller of check_rate_limit
    current,       \* what INCR returned to each caller
    cwindow,       \* history: the window in which each caller's INCR fell
    windowNo,      \* history: how many times the key has expired
    admitted,      \* history: calls that returned normally, per window
    rejected,      \* history: some call raised PermissionDenied
    interrupted,   \* history: some caller ended between INCR and EXPIRE
    heap,          \* the list objects: AI_MODELS and each call's `models`
    cref,          \* the list object each generate_text call's `models` names
    gcpc,          \* position of each concurrent generate_text call
    lrow,          \* the stored notification fields of one lesson
    nruns,         \* runs of the notification task so far
    nfaults,       \* saves of the lesson that raised so far
    sentView,      \* history: 'view' notifications sent successfully
    sentDownload,  \* history: 'download' notifications sent successfully
    nlast          \* history: what the last run did with the lesson

jobVars == <<pc, db, st, hints, i, cur, blocks, rlist, ridx, writes, statusFaults,
             failedHints, outline, excepted, reorderFault, reordered, dispatched>>

genVars == <<catalog, gpc, models, mi, attempt, parsed, invoked, gresult, last,
             allUnparsable>>

impVars == <<ipc, iblock, imp, ist, iresult, iblock0, icalls, iwrites, iFaults,
             hsaved>>

pollVars == <<polled, ipolled>>

extractVars == <<xpc, xtext, xresult>>

renumberVars == <<rblocks, rruns, rwritten, rcomplete, rtotal>>

submitVars == <<hpc, credits, ucredits, huser, hlesson, hrow, hdeducted, henq,
                hcredits0>>

twiceVars == <<tpc, tst, thints, ti>>

ledgerVars == <<lstore, linit, lpc, lkind, lmem, lspent, lpaid>>

decVars == <<dmem, dstore, dret, dcount, dcalls, dfaults>>

rateVars == <<limit, counter, ttl, cpc, current, cwindow, windowNo, admitted,
              rejected, interrupted>>

shuffleVars == <<heap, cref, gcpc>>

notifyVars == <<lrow, nruns, nfaults, sentView, sentDownload, nlast>>

lateVars == <<twiceVars, ledgerVars, decVars, rateVars, shuffleVars,
              notifyVars>>

extVars == <<pollVars, extractVars, renumberVars, submitVars, lateVars>>

vars == <<jobVars, genVars, impVars, extVars>>

\* ------------------------------------------------------- status row values
PENDING == "pending"
IN_PROGRESS == "in_progress"
DONE == "done"
FAILED == "failed"

Max(a, b) == IF a >= b THEN a ELSE b

NoRow == [exists |-> FALSE, total |-> 0, completed |-> 0, status |-> "none"]
NoCur == [title |-> "", content |-> "", has_task |-> FALSE]

\* ------------------------------------------- results of the dispatcher call
\* A hint of the outline: "text" is a string or a mapping with a textual
\* topic, "number" a mapping whose topic is a truthy value that cannot be
\* sliced.
HintKinds == {"text", "number"}

RECURSIVE SeqsUpTo(_, _)
SeqsUpTo(S, n) ==
    IF n = 0 THEN {<<>>}
    ELSE LET shorter == SeqsUpTo(S, n - 1)
         IN shorter \cup {Append(s, x) : s \in {t \in shorter : Len(t) = n - 1}, x \in S}

\* A mapping returned by generate_text, reduced to the keys the tasks read.
\* blocks: "absent", "nonlist" or "list" (then items holds the hints).
Dict(bk, items, title, content, has_task) ==
    [blocks |-> bk, items |-> items, title |-> title, content |-> content,
     has_task |-> has_task]

EmptyDict == Dict("absent", <<>>, "absent", "absent", "absent")

OutlineDicts(n) ==
    {Dict("list", s, "absent", "absent", "absent") : s \in SeqsUpTo(HintKinds, n)}
    \cup {Dict("nonlist", <<>>, "absent", "absent", "absent")}

SectionDicts ==
    {Dict("absent", <<>>, "T", "C", "true")}

Dicts(n) == OutlineDicts(n) \cup SectionDicts \cup {EmptyDict}

Raised == [kind |-> "raise"]
Returned(d) == [kind |-> "dict", dict |-> d]

\* What one generate_text call can give its caller.
GenOutcomes(n) == {Raised} \cup {Returned(d) : d \in Dicts(n)}

\* ------------------------------------------------------ provider catalog
AI_MODELS ==
    << [name |-> "gemma-3-27b-it", day_limit_requests |-> 14400,
        is_visual |-> TRUE, provider |-> "Google", type |-> "premium"],
       [name |-> "gemma-3-12b-it", day_limit_requests |-> 14400,
        is_visual |-> FALSE, provider |-> "Google", type |-> "basic"],
       [name |-> "gemini-2.0-flash-lite", day_limit_requests |-> 1500,
        is_visual |-> FALSE, provider |-> "Google", type |-> "premium"],
       [name |-> "gemini-2.0-flash", day_limit_requests |-> 1500,
        is_visual |-> FALSE, provider |-> "Google", type |-> "premium"],
       [name |-> "llama-3.3-70b-versatile", day_limit_requests |-> 1000,
        is_visual |-> FALSE, provider |-> "Groq", type |-> "premium"],
       [name |-> "qwen/qwen3-32b", day_limit_requests |-> 1000,
        is_visual |-> FALSE, provider |-> "Groq", type |-> "premium"] >>

ModelNames == {AI_MODELS[k].name : k \in 1..Len(AI_MODELS)}

\* for attempt in range(2)
Attempts == 2

\* ------------------------------------------------------------ raw responses
\* A response text is a sequence of tokens: an opening brace, a closing
\* brace, other text, or the members of a JSON object (which parse to the
\* mapping they describe; braces nested inside them are inside this token).
LBrace == [t |-> "{"]
RBrace == [t |-> "}"]
Junk == [t |-> "x"]
Members(d) == [t |-> "members", dict |-> d]

\* The mappings the backends answer with in the step-by-step dispatcher.
CallDicts ==
    {Dict("list", <<"text">>, "absent", "absent", "absent"),
     Dict("list", <<"number">>, "absent", "absent", "absent"),
     Dict("absent", <<>>, "T", "C", "true"),
     Dict("absent", <<>>, "T", "absent", "absent")}

\* The texts a backend answers with: no object, a lone object, an object in
\* prose, unbalanced or reversed braces, an invalid object, two objects.
AdapterTexts ==
    {<<>>, <<Junk>>, <<LBrace, RBrace>>, <<RBrace, LBrace>>,
     <<LBrace, Junk, RBrace>>}
    \cup UNION {{<<LBrace, Members(d), RBrace>>,
                 <<Junk, LBrace, Members(d), RBrace, Junk>>,
                 <<LBrace, Members(d)>>,
                 <<LBrace, Junk, RBrace, LBrace, Members(d), RBrace>>,
                 <<LBrace, Members(d), RBrace, LBrace, Members(d), RBrace>>}
                : d \in CallDicts}

\* What one backend invocation gives: a transport or API error, a response
\* without text, or a text.
AdapterResponses ==
    {[kind |-> "error"], [kind |-> "null"]}
    \cup {[kind |-> "text", text |-> t] : t \in AdapterTexts}

\* text.find(tok): 0-based index of the first occurrence, -1 without one.
Find(text, tok) ==
    IF \E k \in 1..Len(text) : text[k] = tok
    THEN (CHOOSE k \in 1..Len(text) :
             text[k] = tok /\ \A j \in 1..(k - 1) : text[j] # tok) - 1
    ELSE -1

\* text.rfind(tok): 0-based index of the last occurrence, -1 without one.
RFind(text, tok) ==
    IF \E k \in 1..Len(text) : text[k] = tok
    THEN (CHOOSE k \in 1..Len(text) :
             text[k] = tok /\ \A j \in (k + 1)..Len(text) : text[j] # tok) - 1
    ELSE -1

\* Variant: the slice starts after the opening brace.
SliceAfterBrace(text, start, end) == SubSeq(text, start + 2, end)

\* text[start:end] for 0 <= start and 0 <= end.
Slice(text, start, end) == SubSeq(text, start + 1, end)

NoneValue == [kind |-> "none"]

\* No turn of the dispatcher's loop has run.
NoTurn == [model |-> "none", raised |-> FALSE, usage |-> <<>>]

\* Variant: the empty string loads as an empty object.
JsonLoadsEmptyAsObject(slice) ==
    IF slice = <<>> \/ slice = <<LBrace, RBrace>> THEN Returned(EmptyDict)
    ELSE IF Len(slice) = 3 /\ slice[1] = LBrace /\ slice[3] = RBrace
            /\ slice[2].t = "members"
    THEN Returned(slice[2].dict)
    ELSE NoneValue

\* json.loads on a slice that starts at a brace: an object, or an error
\* (which extract_json turns into None).
JsonLoads(slice) ==
    IF slice = <<LBrace, RBrace>> THEN Returned(EmptyDict)
    ELSE IF Len(slice) = 3 /\ slice[1] = LBrace /\ slice[3] = RBrace
            /\ slice[2].t = "members"
    THEN Returned(slice[2].dict)
    ELSE NoneValue

\* extract_json: from the first opening brace to the last closing brace.
extract_json(text) ==
    LET start == Find(text, LBrace)
        end == RFind(text, RBrace) + 1
    IN IF start = -1 \/ end = -1 THEN NoneValue
       ELSE JsonLoads(Slice(text, start, end))

JobInit ==
    /\ pc = "idle"
    /\ db = NoRow
    /\ st = NoRow
    /\ hints = <<>>
    /\ i = 0
    /\ cur = NoCur
    /\ blocks = {}
    /\ rlist = <<>>
    /\ ridx = 0
    /\ writes = <<>>
    /\ statusFaults = 0
    /\ failedHints = 0
    /\ outline = "none"
    /\ excepted = FALSE
    /\ reorderFault = FALSE
    /\ reordered = FALSE
    /\ dispatched = [u \in 0..MaxHints |-> 0]
    /\ catalog = AI_MODELS
    /\ gpc = "idle"
    /\ models = <<>>
    /\ mi = 0
    /\ attempt = 0
    /\ parsed = [kind |-> "unset"]
    /\ invoked = [n \in ModelNames |-> 0]
    /\ gresult = [kind |-> "unset"]
    /\ last = NoTurn
    /\ allUnparsable = TRUE

\* ------------------------------------------------- section improvement rows
IMPROVE_PENDING == "PENDING"
IMPROVE_IN_PROGRESS == "IN_PROGRESS"
IMPROVE_DONE == "DONE"
IMPROVE_FAILED == "FAILED"

\* The keys of MODE_DESCRIPTIONS.
Modes == {"complexify", "simplify", "more_tasks", "remove_tasks"}

NoBlock == [exists |-> FALSE, title |-> "", content |-> "", order |-> 0,
            has_task |-> FALSE]

NoImprove == [exists |-> FALSE, mode |-> "", status |-> "none", task_id |-> "none",
              result_content |-> "none"]

\* The id Celery gives the task: self.request.id in the task, task.id in the
\* handler.
TaskId == "tid"

\* The contents a section holds before the task, and the non-empty contents
\* a dispatcher result can carry.
OldContents == {"C0", "C1"}
NewContents == {"X"}

\* improved_content of a dispatcher result: missing, an empty (falsy) value,
\* or a non-empty one; "raise" when generate_text raised.
ImproveOutcomes == {"raise", "absent", "empty"} \cup NewContents

\* No improvement task exists.
ImproveIdle ==
    /\ ipc = "idle"
    /\ iblock = NoBlock
    /\ imp = NoImprove
    /\ ist = NoImprove
    /\ iresult = "none"
    /\ iblock0 = NoBlock
    /\ icalls = 0
    /\ iwrites = <<>>
    /\ iFaults = 0
    /\ hsaved = FALSE

\* No poller has shown anything.
NotPolled == [text |-> "none", button |-> "none"]
NotShown == [status |-> "none", result |-> "none"]

PollIdle ==
    /\ polled = NotPolled
    /\ ipolled = NotShown

\* No call of extract_json on its own.
ExtractIdle ==
    /\ xpc = "idle"
    /\ xtext = <<>>
    /\ xresult = [kind |-> "unset"]

\* The renumbering step is not run on its own.
RenumberIdle ==
    /\ rblocks = {}
    /\ rruns = 0
    /\ rwritten = {}
    /\ rcomplete = FALSE
    /\ rtotal = 0

\* get_user_by_tg gives None without a User row: no object, no credits.
NoUser == [loaded |-> FALSE, remaining |-> 0]
UserObject(n) == [loaded |-> TRUE, remaining |-> n]

\* No run of the submission handler.
SubmitIdle ==
    /\ hpc = "idle"
    /\ credits = 0
    /\ ucredits = NoUser
    /\ huser = FALSE
    /\ hlesson = "missing"
    /\ hrow = FALSE
    /\ hdeducted = 0
    /\ henq = 0
    /\ hcredits0 = 0

\* The two deliveries of one generate_lesson_task message.
Execs == {1, 2}

\* The task is delivered once.
TwiceIdle ==
    /\ tpc = [e \in Execs |-> "idle"]
    /\ tst = [e \in Execs |-> NoRow]
    /\ thints = [e \in Execs |-> 0]
    /\ ti = [e \in Execs |-> 0]

\* No concurrent handlers of one user.
LedgerIdle ==
    /\ lstore = 0
    /\ linit = 0
    /\ lpc = [p \in 1..MaxHandlers |-> "idle"]
    /\ lkind = [p \in 1..MaxHandlers |-> "none"]
    /\ lmem = [p \in 1..MaxHandlers |-> 0]
    /\ lspent = 0
    /\ lpaid = 0

\* decrement_generation is not under study.
DecrementIdle ==
    /\ dmem = 0
    /\ dstore = 0
    /\ dret = "none"
    /\ dcount = 0
    /\ dcalls = 0
    /\ dfaults = 0

\* Nobody calls check_rate_limit.
RateIdle ==
    /\ limit = 1
    /\ counter = 0
    /\ ttl = 0
    /\ cpc = [c \in 1..MaxCallers |-> "idle"]
    /\ current = [c \in 1..MaxCallers |-> 0]
    /\ cwindow = [c \in 1..MaxCallers |-> 0]
    /\ windowNo = 0
    /\ admitted = [w \in 0..MaxWindows |-> 0]
    /\ rejected = FALSE
    /\ interrupted = FALSE

\* No generate_text calls at the same time: AI_MODELS is the only list.
ShuffleIdle ==
    /\ heap = [ref \in 0..2 |-> IF ref = 0 THEN AI_MODELS ELSE <<>>]
    /\ cref = [c \in {1, 2} |-> -1]
    /\ gcpc = [c \in {1, 2} |-> "idle"]

\* A new lesson (the defaults of the model's fields), no run yet.
NotifyIdle ==
    /\ lrow = [is_discovered |-> FALSE, is_downloaded |-> FALSE,
               discover_notified |-> FALSE, download_notified |-> FALSE,
               notify_attempts |-> 0]
    /\ nruns = 0
    /\ nfaults = 0
    /\ sentView = 0
    /\ sentDownload = 0
    /\ nlast = "none"

LateIdle ==
    /\ TwiceIdle
    /\ LedgerIdle
    /\ DecrementIdle
    /\ RateIdle
    /\ ShuffleIdle
    /\ NotifyIdle

ExtIdle == PollIdle /\ ExtractIdle /\ RenumberIdle /\ SubmitIdle /\ LateIdle

Init == JobInit /\ ImproveIdle /\ ExtIdle

\* ------------------------------------------------------------ persistence
\* status.save(update_fields=fields): the row after the named fields of the
\* in-memory object s are written.
Persist(s, fields) ==
    [f \in DOMAIN db |-> IF f \in fields THEN s[f] ELSE db[f]]

\* Whether a status.save may raise here, given f earlier failures.
SaveOutcomes(f) == IF f < MaxStatusFaults THEN {TRUE, FALSE} ELSE {TRUE}

Logged(op, value) == Append(writes, [op |-> op, hint |-> i, value |-> value])

\* ------------------------------------------------- submission (the handler)
\* lesson_generate: GenerationStatus.objects.create(lesson, total=0,
\* completed=0) with the default status, then generate_lesson_task.delay().
AcceptJob ==
    /\ pc = "idle"
    /\ db' = [exists |-> TRUE, total |-> 0, completed |-> 0, status |-> PENDING]
    /\ pc' = "queued"
    /\ UNCHANGED <<st, hints, i, cur, blocks, rlist, ridx, writes, statusFaults,
                   failedHints, outline, excepted, reorderFault, reordered,
                   dispatched>>
    /\ UNCHANGED <<genVars, impVars, extVars>>

\* ------------------------------------------------------ generate_lesson_task
\* get_or_create, then status = IN_PROGRESS, completed = 0 and the first save.
LoadedRow ==
    IF db.exists THEN db
    ELSE [exists |-> TRUE, total |-> 0, completed |-> 0, status |-> IN_PROGRESS]

\* Variant: the task forgets `status.status = IN_PROGRESS`.
TaskStartKeepsStatus ==
    /\ pc = "queued"
    /\ st' = [LoadedRow EXCEPT !.completed = 0]
    /\ db' = [LoadedRow EXCEPT !.completed = 0]
    /\ writes' = Logged("start", LoadedRow.status)
    /\ pc' = "structure"
    /\ UNCHANGED <<hints, i, cur, blocks, rlist, ridx, statusFaults, failedHints,
                   outline, excepted, reorderFault, reordered, dispatched>>
    /\ UNCHANGED <<genVars, impVars, extVars>>

\* The first save stands before the outer try: when it raises, the exception
\* leaves the task and the row stays as get_or_create found or made it.
TaskStart ==
    /\ pc = "queued"
    /\ st' = [LoadedRow EXCEPT !.status = IN_PROGRESS, !.completed = 0]
    /\ \E ok \in SaveOutcomes(statusFaults) :
          IF ok
          THEN /\ db' = Persist(st', {"exists", "status", "completed"})
               /\ writes' = Logged("start", IN_PROGRESS)
               /\ pc' = "structure"
               /\ UNCHANGED statusFaults
          ELSE /\ db' = LoadedRow
               /\ statusFaults' = statusFaults + 1
               /\ pc' = "crashed"
               /\ UNCHANGED writes
    /\ UNCHANGED <<hints, i, cur, blocks, rlist, ridx, failedHints,
                   outline, excepted, reorderFault, reordered, dispatched>>
    /\ UNCHANGED <<genVars, impVars, extVars>>

\* Variant: the isinstance(blocks_hints, list) check is missing.
BlocksHintsUnchecked(d) == [list |-> TRUE, items |-> d.items]

\* structure.get("blocks", []): a missing key reads as the empty list.
BlocksHints(d) ==
    IF d.blocks = "absent" THEN [list |-> TRUE, items |-> <<>>]
    ELSE IF d.blocks = "list" THEN [list |-> TRUE, items |-> d.items]
    ELSE [list |-> FALSE, items |-> <<>>]

\* How the structure result reads: the dispatcher raised, or the mapping's
\* hints field is missing, not a list, or a list.
OutlineKind(r) == IF r.kind = "raise" THEN "raise" ELSE r.dict.blocks

\* Phase 1, from the return of generate_text to the write of total.
StructureResult(r) ==
    /\ pc = "structure"
    /\ outline' = OutlineKind(r)
    /\ IF r.kind = "raise"
       THEN /\ pc' = "except"
            /\ UNCHANGED <<db, st, hints, i, writes, statusFaults>>
       ELSE LET bh == BlocksHints(r.dict) IN
            IF ~bh.list
            THEN /\ st' = [st EXCEPT !.status = FAILED]
                 /\ \E ok \in SaveOutcomes(statusFaults) :
                       IF ok
                       THEN /\ db' = Persist(st', {"status"})
                            /\ writes' = Logged("status", FAILED)
                            /\ pc' = "done"
                            /\ UNCHANGED statusFaults
                       ELSE /\ statusFaults' = statusFaults + 1
                            /\ pc' = "except"
                            /\ UNCHANGED <<db, writes>>
                 /\ UNCHANGED <<hints, i>>
            ELSE /\ st' = [st EXCEPT !.total = Len(bh.items)]
                 /\ hints' = bh.items
                 /\ \E ok \in SaveOutcomes(statusFaults) :
                       IF ok
                       THEN /\ db' = Persist(st', {"total"})
                            /\ writes' = Logged("set_total", st'.total)
                            /\ pc' = "loop"
                            /\ i' = 1
                            /\ UNCHANGED statusFaults
                       ELSE /\ statusFaults' = statusFaults + 1
                            /\ pc' = "except"
                            /\ UNCHANGED <<db, writes, i>>
    /\ UNCHANGED <<cur, blocks, rlist, ridx, failedHints, excepted, reorderFault,
                   reordered>>

\* The hint text of one outline entry; "unsliceable" when the entry is a
\* mapping whose topic is a truthy value without slicing (hint[:200] raises).
Hint(block_topic) ==
    IF block_topic = "number" THEN "unsliceable" ELSE "str"

\* Variant: the handler forgets the decrement.
DecrementTotalKeeps(s) == s

\* status.total = max(0, status.total - 1)
DecrementTotal(s) == [s EXCEPT !.total = Max(0, s.total - 1)]

\* Variant: the handler decrements total in memory without saving it.
FailHintUnsaved(s, f) ==
    /\ st' = DecrementTotal(s)
    /\ pc' = "loop"
    /\ i' = i + 1
    /\ statusFaults' = f
    /\ UNCHANGED <<db, writes>>

\* The body shared by the two per-section handlers: decrement total when it
\* is positive, save it, continue with the next hint.  f counts the saves
\* that raised before the handler was entered.
FailHint(s, f) ==
    IF s.total > 0
    THEN /\ st' = DecrementTotal(s)
         /\ \E ok \in SaveOutcomes(f) :
               IF ok
               THEN /\ db' = Persist(st', {"total"})
                    /\ writes' = Logged("dec_total", st'.total)
                    /\ pc' = "loop"
                    /\ i' = i + 1
                    /\ statusFaults' = f
               ELSE /\ statusFaults' = f + 1
                    /\ pc' = "except"
                    /\ UNCHANGED <<db, writes, i>>
    ELSE /\ st' = s
         /\ pc' = "loop"
         /\ i' = i + 1
         /\ statusFaults' = f
         /\ UNCHANGED <<db, writes>>

\* Variant: the section loop stands outside the outer try, so the exception of
\* the log line leaves the task.
HintErrorUncaught ==
    /\ pc = "loop"
    /\ i <= Len(hints)
    /\ Hint(hints[i]) = "unsliceable"
    /\ pc' = "crashed"
    /\ UNCHANGED <<db, st, hints, i, cur, blocks, rlist, ridx, writes,
                   statusFaults, failedHints, outline, excepted, reorderFault,
                   reordered, dispatched>>
    /\ UNCHANGED <<genVars, impVars, extVars>>

\* The log line before the inner try slices the hint; an unsliceable hint
\* raises outside the per-section handlers.
HintError ==
    /\ pc = "loop"
    /\ i <= Len(hints)
    /\ Hint(hints[i]) = "unsliceable"
    /\ pc' = "except"
    /\ UNCHANGED <<db, st, hints, i, cur, blocks, rlist, ridx, writes,
                   statusFaults, failedHints, outline, excepted, reorderFault,
                   reordered, dispatched>>
    /\ UNCHANGED <<genVars, impVars, extVars>>

\* title, content and has_task read from the mapping, with their defaults.
BlockFields(d) ==
    [title |-> IF d.title = "absent" THEN "default" ELSE d.title,
     content |-> IF d.content = "absent" THEN "" ELSE d.content,
     has_task |-> d.has_task = "true"]

\* Variant: the dispatcher call sits outside the inner try, so its failure
\* reaches the outer handler.
BlockResultUncaught(r) ==
    /\ pc = "loop"
    /\ i <= Len(hints)
    /\ Hint(hints[i]) = "str"
    /\ IF r.kind = "raise"
       THEN /\ pc' = "except"
            /\ failedHints' = failedHints + 1
            /\ UNCHANGED <<db, st, i, writes, statusFaults, cur>>
       ELSE /\ cur' = BlockFields(r.dict)
            /\ pc' = "create"
            /\ UNCHANGED <<db, st, i, writes, statusFaults, failedHints>>
    /\ UNCHANGED <<hints, blocks, rlist, ridx, outline, excepted, reorderFault,
                   reordered>>

\* Variant: title and content are required, a mapping without one of them
\* raises inside the inner try.
BlockResultRequired(r) ==
    /\ pc = "loop"
    /\ i <= Len(hints)
    /\ Hint(hints[i]) = "str"
    /\ IF r.kind = "raise" \/ r.dict.title = "absent" \/ r.dict.content = "absent"
       THEN /\ FailHint(st, statusFaults)
            /\ failedHints' = failedHints + 1
            /\ UNCHANGED cur
       ELSE /\ cur' = BlockFields(r.dict)
            /\ pc' = "create"
            /\ UNCHANGED <<db, st, i, writes, statusFaults, failedHints>>
    /\ UNCHANGED <<hints, blocks, rlist, ridx, outline, excepted, reorderFault,
                   reordered>>

\* Phase 2, the inner try of one hint: from the return of generate_text to
\* the parsed fields, or to the handler that decrements total.
BlockResult(r) ==
    /\ pc = "loop"
    /\ i <= Len(hints)
    /\ Hint(hints[i]) = "str"
    /\ IF r.kind = "raise"
       THEN /\ FailHint(st, statusFaults)
            /\ failedHints' = failedHints + 1
            /\ UNCHANGED cur
       ELSE /\ cur' = BlockFields(r.dict)
            /\ pc' = "create"
            /\ UNCHANGED <<db, st, i, writes, statusFaults, failedHints>>
    /\ UNCHANGED <<hints, blocks, rlist, ridx, outline, excepted, reorderFault,
                   reordered>>

\* Primary keys are uuid4 values: any unused one.
IdPool == 1..MaxHints
FreeIds == IdPool \ {b.id : b \in blocks}

\* LessonBlock.objects.create(lesson, order=i, title, content, has_task)
NewBlock(id) ==
    [id |-> id, order |-> i, hint |-> i, title |-> cur.title,
     content |-> cur.content, has_task |-> cur.has_task]

\* Variant: one transaction spans the loop, so an insert that raises rolls
\* back the rows of the earlier hints too.
CreateBlockSharedTransaction ==
    /\ pc = "create"
    /\ \/ /\ \E id \in FreeIds : blocks' = blocks \cup {NewBlock(id)}
          /\ pc' = "completed"
          /\ UNCHANGED <<db, st, i, writes, statusFaults, failedHints>>
       \/ /\ FailHint(st, statusFaults)
          /\ failedHints' = failedHints + 1
          /\ blocks' = {}
    /\ UNCHANGED <<hints, cur, rlist, ridx, outline, excepted, reorderFault,
                   reordered, dispatched>>
    /\ UNCHANGED <<genVars, impVars, extVars>>

\* The row is created in its own transaction.atomic(); when the insert raises
\* nothing is stored and the second handler decrements total.
CreateBlock ==
    /\ pc = "create"
    /\ \/ /\ \E id \in FreeIds : blocks' = blocks \cup {NewBlock(id)}
          /\ pc' = "completed"
          /\ UNCHANGED <<db, st, i, writes, statusFaults, failedHints>>
       \/ /\ FailHint(st, statusFaults)
          /\ failedHints' = failedHints + 1
          /\ UNCHANGED blocks
    /\ UNCHANGED <<hints, cur, rlist, ridx, outline, excepted, reorderFault,
                   reordered, dispatched>>
    /\ UNCHANGED <<genVars, impVars, extVars>>

\* status.completed = status.completed + 1
IncrementCompleted(s) == [s EXCEPT !.completed = s.completed + 1]

\* The save of completed sits in the same try as the insert: when it raises,
\* the handler written for a failed insert runs, with the row already stored
\* and completed already incremented in memory.
SaveCompleted ==
    /\ pc = "completed"
    /\ \E ok \in SaveOutcomes(statusFaults) :
          IF ok
          THEN /\ st' = IncrementCompleted(st)
               /\ db' = Persist(st', {"completed"})
               /\ writes' = Logged("inc_completed", st'.completed)
               /\ pc' = "loop"
               /\ i' = i + 1
               /\ UNCHANGED statusFaults
          ELSE FailHint(IncrementCompleted(st), statusFaults + 1)
    /\ UNCHANGED <<hints, cur, blocks, rlist, ridx, failedHints, outline,
                   excepted, reorderFault, reordered, dispatched>>
    /\ UNCHANGED <<genVars, impVars, extVars>>

\* Variant: the query orders by id alone.
SortKeyById(a, b) == a.id < b.id

\* order_by('order', 'id')
SortKeyLess(a, b) ==
    \/ a.order < b.order
    \/ a.order = b.order /\ a.id < b.id

RECURSIVE SortedIds(_)
SortedIds(S) ==
    IF S = {} THEN <<>>
    ELSE LET first == CHOOSE a \in S : \A b \in S \ {a} : SortKeyLess(a, b)
         IN <<first.id>> \o SortedIds(S \ {first})

BlockById(id) == CHOOSE b \in blocks : b.id = id

\* After the loop: list(LessonBlock.objects.filter(lesson).order_by(...)).
StartReorder ==
    /\ pc = "loop"
    /\ i > Len(hints)
    /\ rlist' = SortedIds(blocks)
    /\ ridx' = 1
    /\ pc' = "reorder"
    /\ UNCHANGED <<db, st, hints, i, cur, blocks, writes, statusFaults,
                   failedHints, outline, excepted, reorderFault, reordered,
                   dispatched>>
    /\ UNCHANGED <<genVars, impVars, extVars>>

\* Variant: every row is written, whatever its order.
NeedsWriteAlways(b, idx) == TRUE

\* if block.order != idx
NeedsWrite(b, idx) == b.order # idx

\* One turn of `for idx, block in enumerate(blocks, start=1)`: the row is
\* written only when its order differs; a write that raises ends the loop.
ReorderStep ==
    /\ pc = "reorder"
    /\ ridx <= Len(rlist)
    /\ LET b == BlockById(rlist[ridx]) IN
       IF NeedsWrite(b, ridx)
       THEN \/ /\ blocks' = (blocks \ {b}) \cup {[b EXCEPT !.order = ridx]}
               /\ ridx' = ridx + 1
               /\ UNCHANGED <<pc, reorderFault>>
            \/ /\ reorderFault' = TRUE
               /\ pc' = "finalize"
               /\ UNCHANGED <<blocks, ridx>>
       ELSE /\ ridx' = ridx + 1
            /\ UNCHANGED <<pc, blocks, reorderFault>>
    /\ UNCHANGED <<db, st, hints, i, cur, rlist, writes, statusFaults,
                   failedHints, outline, excepted, reordered, dispatched>>
    /\ UNCHANGED <<genVars, impVars, extVars>>

ReorderDone ==
    /\ pc = "reorder"
    /\ ridx > Len(rlist)
    /\ reordered' = TRUE
    /\ pc' = "finalize"
    /\ UNCHANGED <<db, st, hints, i, cur, blocks, rlist, ridx, writes,
                   statusFaults, failedHints, outline, excepted, reorderFault,
                   dispatched>>
    /\ UNCHANGED <<genVars, impVars, extVars>>

\* Variant: the test for completed == 0 comes first.
FinalStatusFailedFirst(s) ==
    IF s.completed = 0 THEN FAILED
    ELSE IF s.completed = s.total THEN DONE
    ELSE IN_PROGRESS

\* DONE if completed == total else FAILED if completed == 0 else IN_PROGRESS
FinalStatus(s) ==
    IF s.completed = s.total THEN DONE
    ELSE IF s.completed = 0 THEN FAILED
    ELSE IN_PROGRESS

Finalize ==
    /\ pc = "finalize"
    /\ st' = [st EXCEPT !.status = FinalStatus(st)]
    /\ \E ok \in SaveOutcomes(statusFaults) :
          IF ok
          THEN /\ db' = Persist(st', {"status"})
               /\ writes' = Logged("status", st'.status)
               /\ pc' = "done"
               /\ UNCHANGED statusFaults
          ELSE /\ statusFaults' = statusFaults + 1
               /\ pc' = "except"
               /\ UNCHANGED <<db, writes>>
    /\ UNCHANGED <<hints, i, cur, blocks, rlist, ridx, failedHints, outline,
                   excepted, reorderFault, reordered, dispatched>>
    /\ UNCHANGED <<genVars, impVars, extVars>>

\* except Exception: status = FAILED, save.  Nothing catches an exception of
\* this save: it leaves the task with the row as it was.
OuterExcept ==
    /\ pc = "except"
    /\ st' = [st EXCEPT !.status = FAILED]
    /\ excepted' = TRUE
    /\ \E ok \in SaveOutcomes(statusFaults) :
          IF ok
          THEN /\ db' = Persist(st', {"status"})
               /\ writes' = Logged("status", FAILED)
               /\ pc' = "done"
               /\ UNCHANGED statusFaults
          ELSE /\ statusFaults' = statusFaults + 1
               /\ pc' = "crashed"
               /\ UNCHANGED <<db, writes>>
    /\ UNCHANGED <<hints, i, cur, blocks, rlist, ridx, failedHints,
                   outline, reorderFault, reordered, dispatched>>
    /\ UNCHANGED <<genVars, impVars, extVars>>

\* -------------------------------------------------------------- generate_text
\* random.shuffle of a copy: any ordering of the catalog's entries.
Shuffles(list) ==
    {[k \in 1..Len(list) |-> list[f[k]]] : f \in Permutations(1..Len(list))}

\* models = AI_MODELS.copy(); random.shuffle(models)
GenStart ==
    /\ gpc = "idle"
    /\ models' \in Shuffles(catalog)
    /\ mi' = 1
    /\ attempt' = 0
    /\ invoked' = [n \in ModelNames |-> 0]
    /\ parsed' = [kind |-> "unset"]
    /\ gpc' = "try"
    /\ last' = NoTurn
    /\ allUnparsable' = TRUE
    /\ UNCHANGED <<catalog, gresult>>

\* Variant: the RuntimeError is raised inside the outer loop, after the
\* attempts of the first model.
NextAttemptGivesUp ==
    IF attempt + 1 < Attempts
    THEN /\ attempt' = attempt + 1
         /\ UNCHANGED <<mi, gpc, gresult>>
    ELSE /\ gpc' = "raised"
         /\ gresult' = Raised
         /\ UNCHANGED <<mi, attempt>>

\* Variant: range(3) in place of range(2).
NextAttemptThrice ==
    IF attempt + 1 < Attempts + 1
    THEN /\ attempt' = attempt + 1
         /\ UNCHANGED <<mi, gpc, gresult>>
    ELSE IF mi < Len(models)
    THEN /\ mi' = mi + 1
         /\ attempt' = 0
         /\ UNCHANGED <<gpc, gresult>>
    ELSE /\ gpc' = "raised"
         /\ gresult' = Raised
         /\ UNCHANGED <<mi, attempt>>

\* The end of one turn of the inner loop without a return: the next attempt,
\* the next model, or the RuntimeError after the last one.
NextAttempt ==
    IF attempt + 1 < Attempts
    THEN /\ attempt' = attempt + 1
         /\ UNCHANGED <<mi, gpc, gresult>>
    ELSE IF mi < Len(models)
    THEN /\ mi' = mi + 1
         /\ attempt' = 0
         /\ UNCHANGED <<gpc, gresult>>
    ELSE /\ gpc' = "raised"
         /\ gresult' = Raised
         /\ UNCHANGED <<mi, attempt>>

\* Variant: a text without an object is answered with an empty mapping.
HandleNoneAsEmpty(p) ==
    /\ gpc' = "returned"
    /\ gresult' = IF p.kind = "dict" THEN p ELSE Returned(EmptyDict)
    /\ UNCHANGED <<mi, attempt>>

\* What the turn does with the value of extract_json.
Handle(p) ==
    IF p.kind = "dict"
    THEN /\ gpc' = "returned"
         /\ gresult' = p
         /\ UNCHANGED <<mi, attempt>>
    ELSE NextAttempt

\* Variant: incr_usage stands before the backend call.
UsageBeforeCall(resp, name) == <<name>>

\* incr_usage(model) is the statement after the backend call: it runs when
\* the call returned, and is skipped when the call raised.
UsageRecords(resp, name) == IF resp.kind = "error" THEN <<>> ELSE <<name>>

\* One turn of the inner loop: the backend of models[mi] is invoked once; an
\* exception of the invocation or of reading the text is caught and logged.
Attempt ==
    /\ gpc = "try"
    /\ models[mi].provider \in {"Google", "Groq"}
    /\ invoked' = [invoked EXCEPT ![models[mi].name] = @ + 1]
    /\ \E resp \in AdapterResponses :
          /\ last' = [model |-> models[mi].name, raised |-> resp.kind = "error",
                      usage |-> UsageRecords(resp, models[mi].name)]
          /\ IF resp.kind = "text"
             THEN /\ parsed' = extract_json(resp.text)
                  /\ Handle(parsed')
                  /\ allUnparsable' = (allUnparsable /\ parsed' = NoneValue)
             ELSE /\ NextAttempt
                  /\ allUnparsable' = FALSE
                  /\ UNCHANGED parsed
    /\ UNCHANGED <<catalog, models>>

\* The call's locals are dropped when its caller has the result.
GenEnd ==
    /\ gpc \in {"returned", "raised"}
    /\ gpc' = "idle"
    /\ models' = <<>>
    /\ mi' = 0
    /\ attempt' = 0
    /\ invoked' = [n \in ModelNames |-> 0]
    /\ parsed' = [kind |-> "unset"]
    /\ gresult' = [kind |-> "unset"]
    /\ last' = NoTurn
    /\ allUnparsable' = TRUE
    /\ UNCHANGED catalog

\* ------------------------------------------- the job with an atomic dispatcher
Dispatch(u) == dispatched' = [dispatched EXCEPT ![u] = @ + 1]

\* The results of a call for outlines of up to MaxHints hints.
JobOutcomes == GenOutcomes(MaxHints)

GenerateStructure ==
    /\ \E r \in JobOutcomes : StructureResult(r)
    /\ Dispatch(0)
    /\ UNCHANGED <<genVars, impVars, extVars>>

GenerateBlock ==
    /\ \E r \in JobOutcomes : BlockResult(r)
    /\ Dispatch(i)
    /\ UNCHANGED <<genVars, impVars, extVars>>

Next ==
    \/ AcceptJob
    \/ TaskStart
    \/ GenerateStructure
    \/ HintError
    \/ GenerateBlock
    \/ CreateBlock
    \/ SaveCompleted
    \/ StartReorder
    \/ ReorderStep
    \/ ReorderDone
    \/ Finalize
    \/ OuterExcept

Spec == Init /\ [][Next]_vars

\* The worker runs an accepted task to its end: every call of the task
\* returns or raises, so a step of the task that can be taken is taken.
TaskNext ==
    \/ TaskStart
    \/ GenerateStructure
    \/ HintError
    \/ GenerateBlock
    \/ CreateBlock
    \/ SaveCompleted
    \/ StartReorder
    \/ ReorderStep
    \/ ReorderDone
    \/ Finalize
    \/ OuterExcept

SpecLive == Init /\ [][Next]_vars /\ WF_vars(TaskNext)

\* ------------------------------- the job with the dispatcher step by step
CallStructure ==
    /\ pc = "structure"
    /\ GenStart
    /\ Dispatch(0)
    /\ UNCHANGED <<pc, db, st, hints, i, cur, blocks, rlist, ridx, writes,
                   statusFaults, failedHints, outline, excepted, reorderFault,
                   reordered>>
    /\ UNCHANGED <<impVars, extVars>>

CallBlock ==
    /\ pc = "loop"
    /\ i <= Len(hints)
    /\ Hint(hints[i]) = "str"
    /\ GenStart
    /\ Dispatch(i)
    /\ UNCHANGED <<pc, db, st, hints, i, cur, blocks, rlist, ridx, writes,
                   statusFaults, failedHints, outline, excepted, reorderFault,
                   reordered>>
    /\ UNCHANGED <<impVars, extVars>>

BackendAttempt ==
    /\ Attempt
    /\ UNCHANGED <<jobVars, impVars, extVars>>

ReturnStructure ==
    /\ GenEnd
    /\ StructureResult(gresult)
    /\ UNCHANGED <<dispatched, impVars, extVars>>

ReturnBlock ==
    /\ GenEnd
    /\ BlockResult(gresult)
    /\ UNCHANGED <<dispatched, impVars, extVars>>

NextDispatch ==
    \/ AcceptJob
    \/ TaskStart
    \/ CallStructure
    \/ BackendAttempt
    \/ ReturnStructure
    \/ HintError
    \/ CallBlock
    \/ ReturnBlock
    \/ CreateBlock
    \/ SaveCompleted
    \/ StartReorder
    \/ ReorderStep
    \/ ReorderDone
    \/ Finalize
    \/ OuterExcept

SpecDispatch == Init /\ [][NextDispatch]_vars

\* --------------------------------------------------------- improve_block_task
\* The task is queued with the ids of a LessonBlock and an ImproveStatus; each
\* of the two rows may be there or not when the task starts.
InitImprove ==
    /\ JobInit
    /\ ipc = "queued"
    /\ iblock \in {NoBlock}
                 \cup {[exists |-> TRUE, title |-> "T", content |-> c, order |-> 1,
                        has_task |-> h] : c \in OldContents, h \in BOOLEAN}
    /\ imp \in {NoImprove}
              \cup {[exists |-> TRUE, mode |-> m, status |-> IMPROVE_PENDING,
                     task_id |-> "none", result_content |-> "none"] : m \in Modes}
    /\ ist = NoImprove
    /\ iresult = "none"
    /\ iblock0 = iblock
    /\ icalls = 0
    /\ iwrites = <<>>
    /\ iFaults = 0
    /\ hsaved = FALSE
    /\ ExtIdle

\* status.save(update_fields=fields) of the ImproveStatus object s.
ImprovePersist(s, fields) ==
    [f \in DOMAIN imp |-> IF f \in fields THEN s[f] ELSE imp[f]]

ImproveSaveOutcomes(f) == IF f < MaxImproveFaults THEN {TRUE, FALSE} ELSE {TRUE}

ImproveLogged(op, value) == Append(iwrites, [op |-> op, value |-> value])

\* Variant: the handler saves its whole object, the copy it created with
\* status PENDING and no result, in place of update_fields=["task_id"].
HandlerSaveTaskIdAllFields ==
    /\ imp.exists
    /\ ~hsaved
    /\ ipc # "idle"
    /\ imp' = [imp EXCEPT !.task_id = TaskId, !.status = IMPROVE_PENDING,
                          !.result_content = "none"]
    /\ hsaved' = TRUE
    /\ UNCHANGED <<ipc, iblock, ist, iresult, iblock0, icalls, iwrites, iFaults>>
    /\ UNCHANGED <<jobVars, genVars, extVars>>

\* lesson_ai_apply after .delay(): improve_status.task_id = task.id, saved
\* with update_fields=["task_id"], at any moment of the task's run.
HandlerSaveTaskId ==
    /\ imp.exists
    /\ ~hsaved
    /\ ipc # "idle"
    /\ imp' = [imp EXCEPT !.task_id = TaskId]
    /\ hsaved' = TRUE
    /\ UNCHANGED <<ipc, iblock, ist, iresult, iblock0, icalls, iwrites, iFaults>>
    /\ UNCHANGED <<jobVars, genVars, extVars>>

\* Variant: the task marks the ImproveStatus before it looks for the block.
ImproveLoadMarksStarted ==
    /\ ipc = "queued"
    /\ IF ~imp.exists
       THEN /\ ipc' = "aborted"
            /\ UNCHANGED <<imp, ist, iwrites>>
       ELSE /\ ist' = [imp EXCEPT !.status = IMPROVE_IN_PROGRESS]
            /\ imp' = ImprovePersist(ist', {"status"})
            /\ iwrites' = ImproveLogged("status", IMPROVE_IN_PROGRESS)
            /\ ipc' = IF iblock.exists THEN "loaded" ELSE "aborted"
    /\ UNCHANGED <<iblock, iresult, iblock0, icalls, iFaults, hsaved>>
    /\ UNCHANGED <<jobVars, genVars, extVars>>

\* LessonBlock.objects.get, ImproveStatus.objects.get; DoesNotExist of either
\* returns from the task.
ImproveLoad ==
    /\ ipc = "queued"
    /\ IF iblock.exists /\ imp.exists
       THEN /\ ist' = imp
            /\ ipc' = "loaded"
       ELSE /\ ipc' = "aborted"
            /\ UNCHANGED ist
    /\ UNCHANGED <<iblock, imp, iresult, iblock0, icalls, iwrites, iFaults, hsaved>>
    /\ UNCHANGED <<jobVars, genVars, extVars>>

\* status = IN_PROGRESS, task_id = self.request.id, save; this save stands
\* before the try, so its exception leaves the task.
ImproveStart ==
    /\ ipc = "loaded"
    /\ ist' = [ist EXCEPT !.status = IMPROVE_IN_PROGRESS, !.task_id = TaskId]
    /\ \E ok \in ImproveSaveOutcomes(iFaults) :
          IF ok
          THEN /\ imp' = ImprovePersist(ist', {"status", "task_id"})
               /\ iwrites' = ImproveLogged("status", IMPROVE_IN_PROGRESS)
               /\ ipc' = "started"
               /\ UNCHANGED iFaults
          ELSE /\ iFaults' = iFaults + 1
               /\ ipc' = "crashed"
               /\ UNCHANGED <<imp, iwrites>>
    /\ UNCHANGED <<iblock, iresult, iblock0, icalls, hsaved>>
    /\ UNCHANGED <<jobVars, genVars, extVars>>

\* Variant: only a missing field is refused (`is None` in place of `not`).
TruthyOrEmpty(r) == r # "absent"

\* `if not new_content`: a missing field and an empty value are both refused.
Truthy(r) == r \in NewContents

\* The value ai_response.get("improved_content") gives.
ContentOf(r) == IF r = "empty" THEN "" ELSE r

\* generate_text, then the read of improved_content; a raise of the call and
\* the ValueError for a refused value both go to the handler.
ImproveGenerate ==
    /\ ipc = "started"
    /\ \E r \in ImproveOutcomes :
          /\ iresult' = r
          /\ ipc' = IF r = "raise" \/ ~Truthy(r) THEN "except" ELSE "write"
    /\ icalls' = icalls + 1
    /\ UNCHANGED <<iblock, imp, ist, iblock0, iwrites, iFaults, hsaved>>
    /\ UNCHANGED <<jobVars, genVars, extVars>>

\* Variant: the new content is set on the object and never saved.
ImproveWriteBlockSkipped ==
    /\ ipc = "write"
    /\ ipc' = "finish"
    /\ UNCHANGED <<iblock, imp, ist, iresult, iblock0, icalls, iwrites, iFaults,
                   hsaved>>
    /\ UNCHANGED <<jobVars, genVars, extVars>>

\* block.content = new_content; block.save(update_fields=["content", ...]).
ImproveWriteBlock ==
    /\ ipc = "write"
    /\ \E ok \in ImproveSaveOutcomes(iFaults) :
          IF ok
          THEN /\ iblock' = [iblock EXCEPT !.content = ContentOf(iresult)]
               /\ iwrites' = ImproveLogged("content", ContentOf(iresult))
               /\ ipc' = "finish"
               /\ UNCHANGED iFaults
          ELSE /\ iFaults' = iFaults + 1
               /\ ipc' = "except"
               /\ UNCHANGED <<iblock, iwrites>>
    /\ UNCHANGED <<imp, ist, iresult, iblock0, icalls, hsaved>>
    /\ UNCHANGED <<jobVars, genVars, extVars>>

\* status = DONE, result_content = new_content, save.
ImproveFinish ==
    /\ ipc = "finish"
    /\ ist' = [ist EXCEPT !.status = IMPROVE_DONE,
                          !.result_content = ContentOf(iresult)]
    /\ \E ok \in ImproveSaveOutcomes(iFaults) :
          IF ok
          THEN /\ imp' = ImprovePersist(ist', {"status", "result_content"})
               /\ iwrites' = ImproveLogged("status", IMPROVE_DONE)
               /\ ipc' = "done"
               /\ UNCHANGED iFaults
          ELSE /\ iFaults' = iFaults + 1
               /\ ipc' = "except"
               /\ UNCHANGED <<imp, iwrites>>
    /\ UNCHANGED <<iblock, iresult, iblock0, icalls, hsaved>>
    /\ UNCHANGED <<jobVars, genVars, extVars>>

\* except Exception: status = FAILED, save(update_fields=["status", ...]); an
\* exception of this save leaves the task.
ImproveExcept ==
    /\ ipc = "except"
    /\ ist' = [ist EXCEPT !.status = IMPROVE_FAILED]
    /\ \E ok \in ImproveSaveOutcomes(iFaults) :
          IF ok
          THEN /\ imp' = ImprovePersist(ist', {"status"})
               /\ iwrites' = ImproveLogged("status", IMPROVE_FAILED)
               /\ ipc' = "done"
               /\ UNCHANGED iFaults
          ELSE /\ iFaults' = iFaults + 1
               /\ ipc' = "crashed"
               /\ UNCHANGED <<imp, iwrites>>
    /\ UNCHANGED <<iblock, iresult, iblock0, icalls, hsaved>>
    /\ UNCHANGED <<jobVars, genVars, extVars>>

\* improve_status_handler: the row is read and shown; result_content is shown
\* for DONE only.  The handler writes nothing.  (A missing row raises
\* DoesNotExist out of the handler.)
ImprovePoll ==
    /\ ipc # "idle"
    /\ ipolled' = IF ~imp.exists THEN [status |-> "error", result |-> "none"]
                  ELSE [status |-> imp.status,
                        result |-> IF imp.status = IMPROVE_DONE
                                   THEN imp.result_content ELSE "none"]
    /\ UNCHANGED <<polled, extractVars, renumberVars, submitVars, lateVars>>
    /\ UNCHANGED <<jobVars, genVars, impVars>>

NextImprove ==
    \/ HandlerSaveTaskId
    \/ ImprovePoll
    \/ ImproveLoad
    \/ ImproveStart
    \/ ImproveGenerate
    \/ ImproveWriteBlock
    \/ ImproveFinish
    \/ ImproveExcept

SpecImprove == InitImprove /\ [][NextImprove]_vars

\* The steps of improve_block_task itself.
ImproveTaskNext ==
    \/ ImproveLoad
    \/ ImproveStart
    \/ ImproveGenerate
    \/ ImproveWriteBlock
    \/ ImproveFinish
    \/ ImproveExcept

\* ------------------------------------------------------------ lesson_generate
\* One run of the handler for a callback of a user with up to MaxCredits
\* credits, on a lesson that is missing, someone else's or the user's own,
\* with or without a GenerationStatus row left by an earlier run.
InitSubmit ==
    /\ JobInit
    /\ ImproveIdle
    /\ PollIdle
    /\ ExtractIdle
    /\ RenumberIdle
    /\ LateIdle
    /\ hpc = "start"
    /\ credits \in 0..MaxCredits
    /\ ucredits = NoUser
    /\ huser \in BOOLEAN
    /\ hlesson \in {"missing", "foreign", "own"}
    /\ hrow \in BOOLEAN
    /\ hdeducted = 0
    /\ henq = 0
    /\ hcredits0 = 0

\* check_rate_limit: PermissionDenied ends the handler.
SubmitRateLimit ==
    /\ hpc = "start"
    /\ \E allowed \in BOOLEAN : hpc' = IF allowed THEN "load" ELSE "limited"
    /\ UNCHANGED <<credits, ucredits, huser, hlesson, hrow, hdeducted, henq,
                   hcredits0>>
    /\ UNCHANGED <<pollVars, extractVars, renumberVars, lateVars>>
    /\ UNCHANGED <<jobVars, genVars, impVars>>

\* lesson = safe_get_lesson(...); user = get_user_by_tg(...): the user object
\* holds the credits read now (None without a row).
SubmitLoad ==
    /\ hpc = "load"
    /\ ucredits' = IF huser THEN UserObject(credits) ELSE NoUser
    /\ hcredits0' = credits
    /\ hpc' = "permission"
    /\ UNCHANGED <<credits, huser, hlesson, hrow, hdeducted, henq>>
    /\ UNCHANGED <<pollVars, extractVars, renumberVars, lateVars>>
    /\ UNCHANGED <<jobVars, genVars, impVars>>

\* can_generate_lesson: False without a User row; lesson.creator_id raises
\* AttributeError for a missing lesson; else the lesson must be the user's.
SubmitPermission ==
    /\ hpc = "permission"
    /\ hpc' = IF ~huser THEN "denied"
              ELSE IF hlesson = "missing" THEN "crashed"
              ELSE IF hlesson = "foreign" THEN "denied"
              ELSE "remaining"
    /\ UNCHANGED <<credits, ucredits, huser, hlesson, hrow, hdeducted, henq,
                   hcredits0>>
    /\ UNCHANGED <<pollVars, extractVars, renumberVars, lateVars>>
    /\ UNCHANGED <<jobVars, genVars, impVars>>

\* Variant: the handler never refuses for lack of credits.
NoCreditsNever(remaining) == FALSE

\* if remaining <= 0
NoCredits(remaining) == remaining <= 0

\* remaining = user.remaining_generations (AttributeError without a user
\* object); without credits the handler offers the shop and returns.
SubmitCheckRemaining ==
    /\ hpc = "remaining"
    /\ hpc' = IF ~ucredits.loaded THEN "crashed"
              ELSE IF NoCredits(ucredits.remaining) THEN "no_credits"
              ELSE "deduct"
    /\ UNCHANGED <<credits, ucredits, huser, hlesson, hrow, hdeducted, henq,
                   hcredits0>>
    /\ UNCHANGED <<pollVars, extractVars, renumberVars, lateVars>>
    /\ UNCHANGED <<jobVars, genVars, impVars>>

\* Variant: the last credits cannot be spent.
DecrementGenerationStrict(remaining, count) ==
    IF remaining > count
    THEN [ok |-> TRUE, remaining |-> remaining - count]
    ELSE [ok |-> FALSE, remaining |-> remaining]

\* User.decrement_generation(count): with remaining >= count the object's
\* value is lowered and saved and True is returned; else False.
DecrementGeneration(remaining, count) ==
    IF remaining >= count
    THEN [ok |-> TRUE, remaining |-> remaining - count]
    ELSE [ok |-> FALSE, remaining |-> remaining]

\* user.decrement_generation(): the handler does not look at the returned
\* value; an exception of the save leaves the handler.
SubmitDeduct ==
    /\ hpc = "deduct"
    /\ LET r == DecrementGeneration(ucredits.remaining, 1) IN
       /\ ucredits' = UserObject(r.remaining)
       /\ IF r.ok
          THEN \/ /\ credits' = r.remaining
                  /\ hdeducted' = hdeducted + 1
                  /\ hpc' = "metrics"
               \/ /\ hpc' = "crashed"
                  /\ UNCHANGED <<credits, hdeducted>>
          ELSE /\ hpc' = "metrics"
               /\ UNCHANGED <<credits, hdeducted>>
    /\ UNCHANGED <<huser, hlesson, hrow, henq, hcredits0>>
    /\ UNCHANGED <<pollVars, extractVars, renumberVars, lateVars>>
    /\ UNCHANGED <<jobVars, genVars, impVars>>

\* metrics = track_user_activity(user); metrics.update_last_generated():
\* track_user_activity gives None on an error, and then (or when the save
\* raises) the handler is left.
SubmitMetrics ==
    /\ hpc = "metrics"
    /\ \E ok \in BOOLEAN : hpc' = IF ok THEN "lesson" ELSE "crashed"
    /\ UNCHANGED <<credits, ucredits, huser, hlesson, hrow, hdeducted, henq,
                   hcredits0>>
    /\ UNCHANGED <<pollVars, extractVars, renumberVars, lateVars>>
    /\ UNCHANGED <<jobVars, genVars, impVars>>

\* if not lesson: answer "lesson not found" and return.
SubmitLessonCheck ==
    /\ hpc = "lesson"
    /\ hpc' = IF hlesson = "missing" THEN "not_found" ELSE "create"
    /\ UNCHANGED <<credits, ucredits, huser, hlesson, hrow, hdeducted, henq,
                   hcredits0>>
    /\ UNCHANGED <<pollVars, extractVars, renumberVars, lateVars>>
    /\ UNCHANGED <<jobVars, genVars, impVars>>

\* GenerationStatus.objects.create(lesson, total=0, completed=0): the lesson
\* field is one-to-one, so a second row for a lesson raises IntegrityError.
SubmitCreate ==
    /\ hpc = "create"
    /\ IF hrow
       THEN /\ hpc' = "crashed"
            /\ UNCHANGED hrow
       ELSE /\ hrow' = TRUE
            /\ hpc' = "enqueue"
    /\ UNCHANGED <<credits, ucredits, huser, hlesson, hdeducted, henq, hcredits0>>
    /\ UNCHANGED <<pollVars, extractVars, renumberVars, lateVars>>
    /\ UNCHANGED <<jobVars, genVars, impVars>>

\* generate_lesson_task.delay(str(lesson.id))
SubmitEnqueue ==
    /\ hpc = "enqueue"
    /\ henq' = henq + 1
    /\ hpc' = "enqueued"
    /\ UNCHANGED <<credits, ucredits, huser, hlesson, hrow, hdeducted, hcredits0>>
    /\ UNCHANGED <<pollVars, extractVars, renumberVars, lateVars>>
    /\ UNCHANGED <<jobVars, genVars, impVars>>

NextSubmit ==
    \/ SubmitRateLimit
    \/ SubmitLoad
    \/ SubmitPermission
    \/ SubmitCheckRemaining
    \/ SubmitDeduct
    \/ SubmitMetrics
    \/ SubmitLessonCheck
    \/ SubmitCreate
    \/ SubmitEnqueue

SpecSubmit == InitSubmit /\ [][NextSubmit]_vars

\* ------------------------------------------- the renumbering step on its own
\* The rows of a lesson: distinct ids, any stored orders.
RowSets ==
    UNION {{{[id |-> k, order |-> f[k]] : k \in D} : f \in [D -> 0..MaxOrder]}
           : D \in SUBSET (1..MaxRows)}

InitRenumber ==
    /\ JobInit
    /\ ImproveIdle
    /\ PollIdle
    /\ ExtractIdle
    /\ SubmitIdle
    /\ LateIdle
    /\ rblocks \in RowSets
    /\ rruns = 0
    /\ rwritten = {}
    /\ rcomplete = FALSE
    /\ rtotal = 0

\* The index enumerate(blocks, start=1) gives the row with this id.
Position(list, id) == CHOOSE k \in 1..Len(list) : list[k] = id

\* One run of the step: the rows are listed by (order, id) and each row whose
\* order differs from its index is written, in list order.  The run ends
\* after the n-th row: at the end of the list, or at a write that raises
\* (the except clause logs it and the loop is left).
RunRenumber ==
    /\ rruns < MaxRuns
    /\ LET list == SortedIds(rblocks) IN
       \E n \in 0..Len(list) :
          /\ \/ n = Len(list)
             \/ n < Len(list)
                /\ \E b \in rblocks : b.id = list[n + 1] /\ NeedsWrite(b, n + 1)
          /\ rblocks' = {IF Position(list, b.id) <= n
                            /\ NeedsWrite(b, Position(list, b.id))
                         THEN [b EXCEPT !.order = Position(list, b.id)]
                         ELSE b : b \in rblocks}
          /\ rwritten' = {b.id : b \in {c \in rblocks :
                               /\ Position(list, c.id) <= n
                               /\ NeedsWrite(c, Position(list, c.id))}}
          /\ rcomplete' = (n = Len(list))
    /\ rruns' = rruns + 1
    /\ rtotal' = rtotal + Cardinality(rwritten')
    /\ UNCHANGED <<pollVars, extractVars, submitVars, lateVars>>
    /\ UNCHANGED <<jobVars, genVars, impVars>>

NextRenumber == RunRenumber

SpecRenumber == InitRenumber /\ [][NextRenumber]_vars

\* ------------------------------------------------------ extract_json on its own
\* The objects the raw texts hold, and the tokens the texts are made of.
ExtractDicts ==
    {Dict("list", <<"text">>, "absent", "absent", "absent"),
     Dict("absent", <<>>, "T", "C", "true")}

ExtractTokens == {LBrace, RBrace, Junk} \cup {Members(d) : d \in ExtractDicts}

RawTexts == SeqsUpTo(ExtractTokens, MaxTextLen)

InitExtract ==
    /\ JobInit
    /\ ImproveIdle
    /\ PollIdle
    /\ RenumberIdle
    /\ SubmitIdle
    /\ LateIdle
    /\ xpc = "ready"
    /\ xtext \in RawTexts
    /\ xresult = [kind |-> "unset"]

\* parsed = extract_json(text)
ExtractCall ==
    /\ xpc = "ready"
    /\ xresult' = extract_json(xtext)
    /\ xpc' = "done"
    /\ UNCHANGED <<xtext, pollVars, renumberVars, submitVars, lateVars>>
    /\ UNCHANGED <<jobVars, genVars, impVars>>

NextExtract == ExtractCall

SpecExtract == InitExtract /\ [][NextExtract]_vars

\* ------------------------------------------------- the records and their readers
\* check_lesson_status: GenerationStatus.objects.get(lesson_id), then the
\* text and the button computed from total and completed.  The handler
\* writes nothing; without a row it answers "not found".
CheckLessonStatus ==
    /\ pc # "idle"
    /\ polled' =
          IF ~db.exists THEN [text |-> "not_found", button |-> "none"]
          ELSE [text |-> IF db.total = 0 /\ db.completed = 0 THEN "starting"
                         ELSE IF db.completed < db.total THEN "running"
                         ELSE "finished",
                button |-> IF db.completed = db.total /\ db.total > 0
                           THEN "view" ELSE "refresh"]
    /\ UNCHANGED <<ipolled, extractVars, renumberVars, submitVars, lateVars>>
    /\ UNCHANGED <<jobVars, genVars, impVars>>

\* One submitted job of either kind, with its submitting handler and its
\* poller running between the steps of the task.
InitRecords == Init \/ InitImprove

NextRecords ==
    \/ ipc = "idle" /\ Next
    \/ ipc = "idle" /\ CheckLessonStatus
    \/ NextImprove

SpecRecords == InitRecords /\ [][NextRecords]_vars

\* ==================================================================== claims
WritesOf(ops) == {k \in 1..Len(writes) : writes[k].op \in ops}
WritesForHint(j) == {k \in 1..Len(writes) : writes[k].hint = j}
InSectionLoop == pc \in {"loop", "create", "completed"}

\* C1: every snapshot of the persisted ProgressState a poller can read
\* satisfies 0 <= completed <= total, for every pattern of generation and
\* persistence failures.
C1_CompletedWithinTotal ==
    db.exists => (0 <= db.completed /\ db.completed <= db.total)

\* C2: when exactly K of the N hints fail (dispatcher or row creation), the
\* others succeed and nothing else fails, the job ends with persisted
\* total = N - K, completed = N - K, status DONE and N - K section rows.
C2_Scenario ==
    /\ pc = "done"
    /\ outline = "list"
    /\ ~excepted
    /\ statusFaults = 0

C2_FinalCounts ==
    C2_Scenario =>
        /\ db.total = Len(hints) - failedHints
        /\ db.completed = Len(hints) - failedHints
        /\ db.status = DONE
        /\ Cardinality(blocks) = Len(hints) - failedHints

C2_Witness ==
    /\ C2_Scenario
    /\ Len(hints) = 3
    /\ failedHints = 1
    /\ Cardinality(blocks) = 2

\* C3: the committed ProgressState writes of one job are ordered: total is
\* set from the outline, once, before any increment of completed or
\* decrement of total, and while the loop runs every hint already processed
\* has exactly one committed write, an increment of completed or a
\* decrement of total, made before the next hint's dispatcher call.
C3_WritesOrdered ==
    /\ \A k \in WritesOf({"inc_completed", "dec_total"}) :
          \E j \in WritesOf({"set_total"}) : j < k
    /\ \A k \in WritesOf({"set_total"}) :
          /\ writes[k].hint = 0
          /\ \A j \in 1..Len(writes) :
                writes[j].op \in {"set_total", "inc_completed", "dec_total"} => k <= j
    /\ InSectionLoop =>
          /\ \A j \in 1..(i - 1) :
                /\ Cardinality(WritesForHint(j)) = 1
                /\ \A k \in WritesForHint(j) :
                      writes[k].op \in {"inc_completed", "dec_total"}
          /\ WritesForHint(i) = {}

C3_Witness ==
    /\ pc = "loop"
    /\ i = 3
    /\ WritesOf({"inc_completed"}) # {}
    /\ WritesOf({"dec_total"}) # {}

\* C4: a step that absorbs a failed hint (the dispatcher raised or the row
\* was not created) takes exactly 1 from a positive total, leaves completed,
\* the status and the section rows as they were and, its write committing,
\* persists the new total and moves to the next hint.
C4_FailedSectionSkipped ==
    [][failedHints' = failedHints + 1 =>
          /\ st.total > 0
          /\ st'.total = st.total - 1
          /\ st'.completed = st.completed
          /\ db'.completed = db.completed
          /\ st'.status = st.status
          /\ db'.status = db.status
          /\ blocks' = blocks
          /\ statusFaults' = statusFaults =>
                /\ db'.total = st'.total
                /\ db'.total = db.total - 1
                /\ pc' = "loop"
                /\ i' = i + 1]_vars

C4_Witness ==
    /\ pc = "loop"
    /\ failedHints = 2
    /\ statusFaults = 0
    /\ i = 3
    /\ i <= Len(hints)
    /\ db.status = IN_PROGRESS

\* C5: whenever the job is not between the commit of a section row and the
\* write of completed that follows it, and at its end, the persisted
\* completed equals the number of section rows the job has created, also
\* when a ProgressState write fails right after a row was stored.
C5_CompletedCountsSections ==
    pc # "completed" => db.completed = Cardinality(blocks)

\* C6: after a reconciliation loop that ran to its end the order values are
\* exactly 1..M, without gaps or duplicates, and ascend with the previous
\* (order, id), so a section of an earlier hint precedes one of a later hint.
C6_ContiguousOrders ==
    reordered =>
        /\ {b.order : b \in blocks} = 1..Cardinality(blocks)
        /\ \A a, b \in blocks :
              (a.hint < b.hint \/ (a.hint = b.hint /\ a.id < b.id))
                  => a.order < b.order

C6_Witness ==
    /\ reordered
    /\ Cardinality(blocks) = 2
    /\ \E a, b \in blocks :
          /\ a.hint = 2 /\ a.order = 1
          /\ b.hint = 3 /\ b.order = 2
          /\ b.id < a.id

RECURSIVE SumInvoked(_)
SumInvoked(S) ==
    IF S = {} THEN 0
    ELSE LET n == CHOOSE x \in S : TRUE IN invoked[n] + SumInvoked(S \ {n})

\* C7: generate_text raises only after every backend was invoked on every
\* attempt and none gave a mapping; an attempt whose text holds a mapping
\* ends the call, which returns that mapping.
C7_ExhaustionOnlyAfterAllAttempts ==
    /\ gpc = "raised" =>
          /\ \A n \in ModelNames : invoked[n] = Attempts
          /\ parsed.kind # "dict"
          /\ gresult = Raised
    /\ gpc = "returned" => parsed.kind = "dict" /\ gresult = parsed
    /\ gpc = "try" => parsed.kind # "dict"

C7_Witness ==
    /\ gpc = "returned"
    /\ mi = Len(models)
    /\ attempt = Attempts - 1
    /\ SumInvoked(ModelNames) = Attempts * Len(AI_MODELS)

\* C8: one generate_text call walks a permutation of the catalog once, with
\* at most 2 invocations per backend and 2 x |catalog| in all, invokes no
\* backend once it has a result, and the job issues at most one call for
\* the outline and for each hint.
C8_BoundedRetries ==
    /\ [](/\ \A n \in ModelNames : invoked[n] <= Attempts
          /\ SumInvoked(ModelNames) <= Attempts * Len(catalog)
          /\ gpc # "idle" =>
                /\ Len(models) = Len(catalog)
                /\ \A k \in 1..Len(catalog) :
                      \E j \in 1..Len(models) : models[j] = catalog[k]
                /\ \A k \in 1..Len(models) :
                      /\ k < mi => invoked[models[k].name] = Attempts
                      /\ k > mi => invoked[models[k].name] = 0
          /\ \A u \in DOMAIN dispatched : dispatched[u] <= 1)
    /\ [][(gpc \in {"returned", "raised"}) =>
             (\A n \in ModelNames : invoked'[n] <= invoked[n])]_vars

C8_Witness ==
    /\ pc = "loop"
    /\ i = 2
    /\ failedHints = 1
    /\ dispatched[0] = 1
    /\ dispatched[1] = 1

StatusEdges ==
    {<<"none", PENDING>>, <<PENDING, IN_PROGRESS>>,
     <<IN_PROGRESS, DONE>>, <<IN_PROGRESS, FAILED>>}

C10_StatusFollowsEdges ==
    /\ [](pc = "queued" => db.status = PENDING)
    /\ [](pc \notin {"idle", "queued", "done", "crashed"} => db.status = IN_PROGRESS)
    /\ [](pc = "crashed" => db.status \in {PENDING, IN_PROGRESS})
    /\ [][db'.status # db.status => <<db.status, db'.status>> \in StatusEdges]_vars
    /\ [][(db.status \in {DONE, FAILED}) => (db' = db /\ writes' = writes)]_vars

C10_Witness ==
    /\ pc = "done"
    /\ db.status = DONE
    /\ Len(writes) >= 4

Terminated == pc \in {"done", "crashed"}

\* C11: a started job terminates for every outline and every pattern of
\* failures; when no ProgressState write raises it ends inside the task, never
\* by an exception, with a final status as its last committed write; a failed
\* section whose handler commits its write leaves the job in the loop.
C11_JobTerminates ==
    /\ (pc = "queued") ~> Terminated
    /\ [](statusFaults = 0 => pc # "crashed")
    /\ [](pc = "done" =>
             /\ Len(writes) > 0
             /\ writes[Len(writes)].op = "status"
             /\ writes[Len(writes)].value = db.status
             /\ db.status \in {DONE, FAILED, IN_PROGRESS})
    /\ [][(failedHints' = failedHints + 1 /\ statusFaults' = statusFaults)
             => pc' = "loop"]_vars

C11_Witness ==
    /\ pc = "done"
    /\ statusFaults = 0
    /\ ~excepted
    /\ Len(hints) = 2
    /\ failedHints = 2

\* C12: a job that ended after an exception no per-section handler absorbed
\* (the outer handler ran, or the exception left the task) has the persisted
\* status FAILED.
C12_UncaughtForcesFailed ==
    (Terminated /\ (excepted \/ pc = "crashed")) => db.status = FAILED

\* What holds of the outer handler: it sets FAILED whatever total and
\* completed are, and FAILED is persisted when its write commits.
C12_HandlerForcesFailed ==
    /\ [][(pc = "except") =>
             /\ st'.status = FAILED
             /\ st'.total = st.total
             /\ st'.completed = st.completed
             /\ statusFaults' = statusFaults =>
                   (pc' = "done" /\ db'.status = FAILED)]_vars
    /\ []((pc = "done" /\ excepted) => db.status = FAILED)

\* C13: a finalization that finds total = completed = 0 resolves the status
\* to DONE and, its write committing, ends the job with the persisted
\* ProgressState {total 0, completed 0, DONE}.
C13_EmptyResolvesDone ==
    /\ [](pc = "finalize" => (db.total = st.total /\ db.completed <= st.completed))
    /\ [][(pc = "finalize" /\ st.total = 0 /\ st.completed = 0) =>
             /\ st'.status = DONE
             /\ statusFaults' = statusFaults =>
                   /\ pc' = "done"
                   /\ db'.status = DONE
                   /\ db'.total = 0
                   /\ db'.completed = 0]_vars

C13_Witness ==
    /\ pc = "done"
    /\ ~excepted
    /\ Len(hints) = 3
    /\ failedHints = 3
    /\ db.status = DONE
    /\ db.total = 0
    /\ db.completed = 0

\* C14 as stated: a section mapping without title or content is a failed
\* section, so no hint whose mapping lacked one of them (its field reads as
\* the default) gets as far as the creation of a row.
C14_MissingFieldFails ==
    pc = "create" => (cur.title # "default" /\ cur.content # "")

\* C14 amended: when generate_text returns for a hint a mapping without title
\* or content, the hint goes on to row creation with the default in place of
\* each missing field, total and completed untouched at that step, and the
\* row that is stored carries those fields.
C14_MissingFieldUsesDefault ==
    /\ [][(pc = "loop" /\ gpc = "returned"
             /\ (gresult.dict.title = "absent" \/ gresult.dict.content = "absent"))
           => /\ pc' = "create"
              /\ cur'.title = (IF gresult.dict.title = "absent"
                                THEN "default" ELSE gresult.dict.title)
              /\ cur'.content = (IF gresult.dict.content = "absent"
                                  THEN "" ELSE gresult.dict.content)
              /\ cur'.has_task = (gresult.dict.has_task = "true")
              /\ failedHints' = failedHints
              /\ st' = st
              /\ db' = db]_vars
    /\ [](pc = "completed" =>
             \E b \in blocks :
                /\ b.hint = i
                /\ b.order = i
                /\ b.title = cur.title
                /\ b.content = cur.content
                /\ b.has_task = cur.has_task)

C14_Witness ==
    /\ pc = "done"
    /\ \E b \in blocks : b.title = "T" /\ b.content = "" /\ ~b.has_task
    /\ db.status = DONE
    /\ db.total = 1
    /\ db.completed = 1
    /\ failedHints = 0

\* C15: a stored section row is never removed and its title, content and
\* has_task never change; while the section loop runs the set of rows only
\* grows; a step that absorbs a failed hint leaves the rows as they are and,
\* its write committing, the loop goes on with the next hint.
C15_SectionsIsolated ==
    /\ [][\A b \in blocks :
             \E c \in blocks' :
                /\ c.id = b.id
                /\ c.hint = b.hint
                /\ c.title = b.title
                /\ c.content = b.content
                /\ c.has_task = b.has_task]_vars
    /\ [][InSectionLoop => blocks \subseteq blocks']_vars
    /\ [][failedHints' = failedHints + 1 => blocks' = blocks]_vars
    /\ [][(failedHints' = failedHints + 1 /\ statusFaults' = statusFaults)
             => (pc' = "loop" /\ i' = i + 1)]_vars

C15_Witness ==
    /\ pc = "finalize"
    /\ Len(hints) = 3
    /\ failedHints = 1
    /\ {b.hint : b \in blocks} = {1, 3}
    /\ \A b \in blocks : b.title = "T" /\ b.content = "C" /\ b.has_task

OutlineSet == WritesOf({"set_total"}) # {}

\* C16: once the outline phase has set total, the persisted total never
\* increases and the persisted completed never decreases; every later write
\* that changes total takes 1 from it and every later write that changes
\* completed adds 1 to it.
C16_MonotoneCounters ==
    [][OutlineSet =>
          /\ db'.total <= db.total
          /\ db'.completed >= db.completed
          /\ db'.total # db.total => db'.total = db.total - 1
          /\ db'.completed # db.completed => db'.completed = db.completed + 1]_vars

\* What holds of the counters: the persisted and the in-memory total only
\* fall, by 1 a step, the persisted and the in-memory completed only rise, and
\* the in-memory completed rises by 1 a step.
C16_CountersMonotone ==
    [][OutlineSet =>
          /\ db'.total \in {db.total, db.total - 1}
          /\ st'.total \in {st.total, st.total - 1}
          /\ db'.completed >= db.completed
          /\ st'.completed \in {st.completed, st.completed + 1}
          /\ db'.completed # db.completed => db'.completed = st'.completed]_vars

\* C17: when the dispatcher result carries a non-empty improved content X and
\* no save raises, the task ends with the section's content X, the
\* ImproveStatus DONE and its result content X; whenever the ImproveStatus is
\* DONE the section holds that result; the section's title, order and has_task
\* are never changed.
C17_ImproveSuccess ==
    /\ (ipc = "done" /\ iresult \in NewContents /\ iFaults = 0) =>
          /\ iblock.content = iresult
          /\ imp.status = IMPROVE_DONE
          /\ imp.result_content = iresult
    /\ imp.status = IMPROVE_DONE =>
          /\ ipc = "done"
          /\ iresult \in NewContents
          /\ imp.result_content = iresult
          /\ iblock.content = iresult
    /\ iblock.exists = iblock0.exists
    /\ iblock.title = iblock0.title
    /\ iblock.order = iblock0.order
    /\ iblock.has_task = iblock0.has_task

C17_Witness ==
    /\ ipc = "done"
    /\ imp.status = IMPROVE_DONE
    /\ imp.result_content = "X"
    /\ iblock0.content = "C1"
    /\ iblock.content = "X"
    /\ iblock.has_task

\* C18: a task that ended with the ImproveStatus FAILED, for whatever cause,
\* left the section's content as it was before the task.
C18_FailedLeavesContent ==
    (ipc = "done" /\ imp.status = IMPROVE_FAILED) => iblock.content = iblock0.content

\* What holds of a FAILED task: the content differs from the old one only
\* when the section write committed and the save of DONE after it raised.
C18_FailedAfterSectionWrite ==
    (ipc = "done" /\ imp.status = IMPROVE_FAILED /\ iblock.content # iblock0.content) =>
        /\ iFaults >= 1
        /\ iresult \in NewContents
        /\ iblock.content = iresult
        /\ imp.result_content = "none"

\* C19: when the dispatcher result has no improved content, or an empty one,
\* the section row is untouched, no result content is stored, the task goes
\* to its handler and, the handler's write committing, ends FAILED.
C19_MissingContentFails ==
    iresult \in {"absent", "empty"} =>
        /\ iblock = iblock0
        /\ imp.result_content = "none"
        /\ \A k \in 1..Len(iwrites) : iwrites[k].op # "content"
        /\ ipc \in {"except", "done", "crashed"}
        /\ ipc = "done" => imp.status = IMPROVE_FAILED
        /\ (ipc # "except" /\ iFaults = 0) => ipc = "done"

C19_Witness ==
    /\ ipc = "done"
    /\ iresult = "empty"
    /\ imp.status = IMPROVE_FAILED
    /\ imp.result_content = "none"
    /\ iblock.content = "C0"

\* C20: a task that finds the section or the ImproveStatus missing ends at
\* once: no dispatcher call, no write of the task, the section as it was and
\* an existing ImproveStatus still PENDING without a result; every task that
\* goes on found both rows.
C20_MissingRowAborts ==
    /\ [](ipc = "aborted" =>
             /\ ~iblock.exists \/ ~imp.exists
             /\ icalls = 0
             /\ iwrites = <<>>
             /\ iblock = iblock0
             /\ imp.exists =>
                   (imp.status = IMPROVE_PENDING /\ imp.result_content = "none"))
    /\ [](ipc \notin {"queued", "aborted"} => (iblock.exists /\ imp.exists))
    /\ [][(ipc = "queued" /\ ipc' # "queued" /\ (~iblock.exists \/ ~imp.exists))
             => ipc' = "aborted"]_vars

C20_Witness ==
    /\ ipc = "aborted"
    /\ imp.exists
    /\ ~iblock.exists
    /\ hsaved
    /\ imp.status = IMPROVE_PENDING

\* C21: the persisted status of an ImproveStatus row moves only along
\* PENDING -> IN_PROGRESS -> {DONE, FAILED}: a change of the status is one of
\* these three edges, so a terminal value is reached at most once and never
\* left, whenever the handler's save of the task id and the status pollers
\* run between the steps of the task.
ImproveEdges ==
    {<<IMPROVE_PENDING, IMPROVE_IN_PROGRESS>>,
     <<IMPROVE_IN_PROGRESS, IMPROVE_DONE>>,
     <<IMPROVE_IN_PROGRESS, IMPROVE_FAILED>>}

C21_ImproveStatusEdges ==
    [][(imp.exists /\ imp'.status # imp.status)
          => (<<imp.status, imp'.status>> \in ImproveEdges)]_vars

\* The handler saved the task id after the task had written DONE, a poller
\* showed the result, and the row is still DONE.
C21_Witness ==
    /\ imp.status = IMPROVE_DONE
    /\ hsaved
    /\ Len(iwrites) >= 2
    /\ iwrites[Len(iwrites)].op = "status"
    /\ ipolled.status = IMPROVE_DONE
    /\ ipc = "done"

\* C22: once a job is submitted, every write to its GenerationStatus or
\* ImproveStatus row is a step of the owning task; the submitting handler and
\* the pollers write nothing to it.
C22_OnlyJobWrites ==
    [][/\ (pc # "idle" /\ db' # db) => TaskNext
       /\ (imp' # imp) => ImproveTaskNext]_vars

\* C22, as the code has it: every write to the GenerationStatus row after
\* submission is a step of generate_lesson_task, and every write to the
\* ImproveStatus row is a step of improve_block_task except one write by the
\* submitting handler, which stores the task's id in task_id and leaves
\* status and result_content as they are; the pollers write nothing.
C22_OnlyTaskIdByHandler ==
    [][/\ (pc # "idle" /\ db' # db) => TaskNext
       /\ (imp' # imp) =>
             \/ ImproveTaskNext
             \/ /\ ~hsaved /\ hsaved'
                /\ imp' = [imp EXCEPT !.task_id = TaskId]
       /\ (polled' # polled \/ ipolled' # ipolled) => (db' = db /\ imp' = imp)]_vars

\* The handler stored the task id while the task was between its IN_PROGRESS
\* write and its last write, and a poller has read the row since.
C22_Witness ==
    /\ hsaved
    /\ ipc \in {"started", "write", "finish"}
    /\ imp.status = IMPROVE_IN_PROGRESS
    /\ ipolled.status = IMPROVE_IN_PROGRESS

\* The object a balanced {...} substring of the text holds, when the substring
\* starts at token k: {members} or {}.
ObjectAt(text, k) ==
    IF k + 2 <= Len(text) /\ text[k] = LBrace /\ text[k + 1].t = "members"
       /\ text[k + 2] = RBrace
    THEN Returned(text[k + 1].dict)
    ELSE IF k + 1 <= Len(text) /\ text[k] = LBrace /\ text[k + 1] = RBrace
    THEN Returned(EmptyDict)
    ELSE NoneValue

ObjectEnd(text, k) == IF text[k + 1] = RBrace THEN k + 1 ELSE k + 2

\* C23: for every raw text that contains a balanced {...} substring holding
\* valid JSON, whatever precedes or follows it, extract_json returns that
\* object.
C23_AnyObjectExtracted ==
    xpc = "done" =>
        \A k \in 1..Len(xtext) :
            ObjectAt(xtext, k) # NoneValue => xresult = ObjectAt(xtext, k)

\* C23, as the code has it: when the balanced {...} substring holding valid
\* JSON starts at the first opening brace of the text and ends at its last
\* closing brace (only brace-free text precedes and follows it),
\* extract_json returns that object.
C23_OutermostObjectExtracted ==
    xpc = "done" =>
        \A k \in 1..Len(xtext) :
            (/\ ObjectAt(xtext, k) # NoneValue
             /\ Find(xtext, LBrace) = k - 1
             /\ RFind(xtext, RBrace) = ObjectEnd(xtext, k) - 1)
            => xresult = ObjectAt(xtext, k)

\* An object between two stretches of prose was extracted.
C23_Witness ==
    /\ xpc = "done"
    /\ Len(xtext) = 5
    /\ xtext[1] = Junk /\ xtext[5] = Junk
    /\ ObjectAt(xtext, 2) # NoneValue
    /\ xresult = ObjectAt(xtext, 2)

\* A text holds a brace pair when a closing brace stands after its first
\* opening brace.
HasBracePair(text) ==
    \E a, b \in 1..Len(text) : a < b /\ text[a] = LBrace /\ text[b] = RBrace

\* C24: for every raw text without a '{' ... '}' pair (no '{', no '}', or
\* every '}' before the first '{'), extract_json returns None; the call
\* returns, it does not raise.
C24_NoPairGivesNone ==
    (xpc = "done" /\ ~HasBracePair(xtext)) => xresult = NoneValue

\* A text whose closing braces all stand before its first opening brace was
\* given, and the call returned None.
C24_Witness ==
    /\ xpc = "done"
    /\ Find(xtext, LBrace) > RFind(xtext, RBrace)
    /\ RFind(xtext, RBrace) >= 0
    /\ \E k \in 1..Len(xtext) : xtext[k].t = "members"
    /\ xresult = NoneValue

\* C25: a generate_text call whose every turn gets a text without a JSON
\* object never returns a mapping and raises only after all 2 x |catalog|
\* turns; each of its turns leaves one usage record for the backend it
\* invoked and changes neither the catalog nor any persisted row.
C25_UnparsableExhausts ==
    /\ [](allUnparsable => gpc # "returned")
    /\ []((gpc = "raised" /\ allUnparsable) =>
             /\ SumInvoked(ModelNames) = Attempts * Len(AI_MODELS)
             /\ gresult = Raised
             /\ catalog = AI_MODELS)
    /\ [][(gpc = "try" /\ invoked' # invoked /\ allUnparsable') =>
             /\ last'.usage = <<models[mi].name>>
             /\ UNCHANGED <<catalog, db, blocks, imp, iblock>>]_vars

\* The call raised after turns that all got a text without an object.
C25_Witness ==
    /\ gpc = "raised"
    /\ allUnparsable
    /\ parsed = NoneValue
    /\ last.usage = <<models[Len(models)].name>>
    /\ SumInvoked(ModelNames) = Attempts * Len(AI_MODELS)

\* C26: each backend invocation leaves exactly one usage record, for the
\* backend invoked, when the invocation returned (with a text that parses,
\* a text that does not, or no text), and none when it raised.
C26_UsagePerInvocation ==
    [][(gpc = "try" /\ invoked' # invoked) =>
          /\ last'.model = models[mi].name
          /\ last'.usage = IF last'.raised THEN <<>> ELSE <<models[mi].name>>]_vars

\* A turn whose invocation raised, after a turn that returned a text without
\* an object: no usage record for the first, one for the second.
C26_Witness ==
    /\ gpc = "try"
    /\ last.raised
    /\ last.usage = <<>>
    /\ parsed = NoneValue
    /\ SumInvoked(ModelNames) >= 2

\* The orders of the rows are 1..M, each once.
Contiguous(S) == {b.order : b \in S} = 1..Cardinality(S)

\* C27: a run of the renumbering step on rows whose orders are already a
\* contiguous 1..M writes no row and leaves every order as it was; and after
\* a run that reached the end of its loop, a second run writes nothing and
\* changes nothing, so two runs give what one run gives.
C27_RenumberIdempotent ==
    /\ [][(rruns' = rruns + 1 /\ Contiguous(rblocks)) =>
             (rblocks' = rblocks /\ rwritten' = {} /\ rcomplete')]_vars
    /\ [][(rruns' = rruns + 1 /\ rruns >= 1 /\ rcomplete) =>
             (rblocks' = rblocks /\ rwritten' = {} /\ rcomplete')]_vars
    /\ [](rcomplete => Contiguous(rblocks))

\* A first run renumbered rows, a second run found nothing to write.
C27_Witness ==
    /\ rruns = 2
    /\ rcomplete
    /\ rwritten = {}
    /\ rtotal >= 2
    /\ Cardinality(rblocks) = MaxRows

\* C28: a run of lesson_generate enqueues the job only after one
\* decrement_generation call of the same run has returned True and stored
\* the user's credits lowered by exactly one, and a run that finds the user
\* with 0 credits enqueues nothing.
C28_DeductedBeforeEnqueue ==
    /\ [][(henq' # henq) =>
             /\ henq' = 1
             /\ hdeducted = 1
             /\ credits = hcredits0 - 1
             /\ ucredits = UserObject(credits)]_vars
    /\ [](henq > 0 => (hdeducted = 1 /\ credits = hcredits0 - 1))
    /\ []((ucredits.loaded /\ hcredits0 = 0) =>
             (henq = 0 /\ hdeducted = 0 /\ credits = 0
              /\ hpc \notin {"deduct", "metrics", "lesson", "create", "enqueue",
                           "enqueued"}))

\* The user's last credit was spent and the job was enqueued.
C28_Witness ==
    /\ hpc = "enqueued"
    /\ henq = 1
    /\ hcredits0 = 1
    /\ credits = 0

\* The section loop is over: its last turn is done, or the task is past it.
LoopExited ==
    \/ pc = "loop" /\ i > Len(hints)
    \/ pc \in {"reorder", "finalize"}

\* C29: in a run in which no status.save raises, the section loop is left
\* with completed == total, in memory and persisted, so the final status of
\* a job that got an outline and met no uncaught exception is DONE; a job at
\* rest is FAILED only after an outline failure or the outer handler, and is
\* never IN_PROGRESS.
C29_LoopExitsBalanced ==
    statusFaults = 0 =>
        /\ (LoopExited /\ OutlineSet) =>
              /\ st.completed = st.total
              /\ db.completed = db.total
              /\ FinalStatus(st) = DONE
        /\ pc = "done" =>
              /\ db.status \in {DONE, FAILED}
              /\ db.status = FAILED => (excepted \/ ~OutlineSet)
              /\ (OutlineSet /\ ~excepted) => db.status = DONE

\* A job whose hints partly failed, without any failed write, ended DONE.
C29_Witness ==
    /\ pc = "done"
    /\ statusFaults = 0
    /\ db.status = DONE
    /\ Len(hints) = MaxHints
    /\ failedHints = 2
    /\ db.completed = 1
    /\ db.total = 1

\* C30: in the section loop, once hint j of N has been processed (the loop
\* stands before hint j + 1 or has ended), persisted total - completed is
\* N - j; before the last hint has been processed completed differs from
\* total; and a failed hint always finds total above 0.
C30_RemainingHints ==
    /\ []((pc = "loop" /\ OutlineSet) =>
             /\ db.total - db.completed = Len(hints) - (i - 1)
             /\ i <= Len(hints) => db.completed # db.total)
    /\ [][(InSectionLoop /\ OutlineSet /\ i' = i + 1 /\ db'.completed = db.completed)
             => (st.total > 0 /\ db'.total = db.total - 1)]_vars

\* What holds of the code: the same, in the runs in which no status.save
\* has raised.
C30_RemainingHintsWithoutFaults ==
    /\ []((pc = "loop" /\ OutlineSet /\ statusFaults = 0) =>
             /\ db.total - db.completed = Len(hints) - (i - 1)
             /\ i <= Len(hints) => db.completed # db.total)
    /\ [][(InSectionLoop /\ OutlineSet /\ statusFaults' = 0 /\ i' = i + 1
            /\ db'.completed = db.completed)
             => (st.total > 0 /\ db'.total = db.total - 1)]_vars

\* C31: whenever check_lesson_status shows a lesson as complete (it read
\* completed == total with total > 0) while the job runs, the job has
\* finished renumbering: the orders of the lesson's rows are 1..M and the
\* persisted status is DONE.
C31_CompleteMeansRenumbered ==
    [][(CheckLessonStatus /\ polled'.button = "view") =>
          /\ reordered
          /\ Contiguous(blocks)
          /\ db.status = DONE]_vars

\* What holds of the code: the poller shows a lesson as complete only after
\* the section loop has stored a section, never before the outline is set.
C31_CompleteMeansSectionStored ==
    [][(CheckLessonStatus /\ polled'.button = "view") =>
          /\ OutlineSet
          /\ blocks # {}
          /\ pc \notin {"queued", "structure"}]_vars

\* ------------------------------------- generate_lesson_task delivered twice
\* Two executions of generate_lesson_task for the same lesson share the
\* GenerationStatus row and the lesson's LessonBlock rows; each holds its own
\* in-memory status object, outline and loop index.  Every database
\* statement is one step, so the executions interleave between statements.
jobRest == <<st, hints, i, cur, rlist, ridx, writes, statusFaults, failedHints,
             outline, excepted, reorderFault, reordered, dispatched>>

TwiceOthers == <<genVars, impVars, pollVars, extractVars, renumberVars,
                 submitVars, ledgerVars, decVars, rateVars, shuffleVars,
    notifyVars>>

TwiceIdPool == 1..(2 * MaxTwiceHints)

\* GenerationStatus.objects.get_or_create(lesson=lesson, defaults=...)
TwLoad(e) ==
    /\ pc = "queued"
    /\ tpc[e] = "idle"
    /\ tst' = [tst EXCEPT ![e] = LoadedRow]
    /\ db' = LoadedRow
    /\ tpc' = [tpc EXCEPT ![e] = "start"]
    /\ UNCHANGED <<pc, blocks, thints, ti, jobRest, TwiceOthers>>

\* status = IN_PROGRESS, completed = 0, save(update_fields=["status",
\* "completed"])
TwStart(e) ==
    /\ tpc[e] = "start"
    /\ tst' = [tst EXCEPT ![e] = [tst[e] EXCEPT !.status = IN_PROGRESS,
                                                !.completed = 0]]
    /\ db' = Persist(tst'[e], {"status", "completed"})
    /\ tpc' = [tpc EXCEPT ![e] = "structure"]
    /\ UNCHANGED <<pc, blocks, thints, ti, jobRest, TwiceOthers>>

\* The outline call returns n hints: total = n is saved and the loop starts;
\* or it raises and the outer handler takes over.
TwOutline(e) ==
    /\ tpc[e] = "structure"
    /\ \/ \E n \in 0..MaxTwiceHints :
             /\ tst' = [tst EXCEPT ![e].total = n]
             /\ db' = Persist(tst'[e], {"total"})
             /\ thints' = [thints EXCEPT ![e] = n]
             /\ ti' = [ti EXCEPT ![e] = 1]
             /\ tpc' = [tpc EXCEPT ![e] = "loop"]
       \/ /\ tpc' = [tpc EXCEPT ![e] = "except"]
          /\ UNCHANGED <<db, tst, thints, ti>>
    /\ UNCHANGED <<pc, blocks, jobRest, TwiceOthers>>

\* A hint whose section is not generated: total is decremented and saved when
\* it is positive, and the loop continues.
TwHintFails(e) ==
    /\ tpc[e] = "loop"
    /\ ti[e] <= thints[e]
    /\ IF tst[e].total > 0
       THEN /\ tst' = [tst EXCEPT ![e] = DecrementTotal(tst[e])]
            /\ db' = Persist(tst'[e], {"total"})
       ELSE UNCHANGED <<db, tst>>
    /\ ti' = [ti EXCEPT ![e] = ti[e] + 1]
    /\ UNCHANGED <<pc, blocks, tpc, thints, jobRest, TwiceOthers>>

\* LessonBlock.objects.create(lesson, order=i, ...) in its own transaction.
TwInsert(e) ==
    /\ tpc[e] = "loop"
    /\ ti[e] <= thints[e]
    /\ \E id \in TwiceIdPool \ {b.id : b \in blocks} :
          blocks' = blocks \cup {[id |-> id, order |-> ti[e], hint |-> ti[e],
                                  title |-> NoCur.title,
                                  content |-> NoCur.content,
                                  has_task |-> NoCur.has_task]}
    /\ tpc' = [tpc EXCEPT ![e] = "completed"]
    /\ UNCHANGED <<pc, db, tst, thints, ti, jobRest, TwiceOthers>>

\* status.completed = status.completed + 1, save(update_fields=["completed"])
TwSaveCompleted(e) ==
    /\ tpc[e] = "completed"
    /\ tst' = [tst EXCEPT ![e] = IncrementCompleted(tst[e])]
    /\ db' = Persist(tst'[e], {"completed"})
    /\ ti' = [ti EXCEPT ![e] = ti[e] + 1]
    /\ tpc' = [tpc EXCEPT ![e] = "loop"]
    /\ UNCHANGED <<pc, blocks, thints, jobRest, TwiceOthers>>

\* After the loop the lesson's rows, those of the other execution included,
\* are listed by (order, id) and renumbered.
TwReorder(e) ==
    /\ tpc[e] = "loop"
    /\ ti[e] > thints[e]
    /\ LET list == SortedIds(blocks) IN
       blocks' = {IF NeedsWrite(b, Position(list, b.id))
                  THEN [b EXCEPT !.order = Position(list, b.id)]
                  ELSE b : b \in blocks}
    /\ tpc' = [tpc EXCEPT ![e] = "finalize"]
    /\ UNCHANGED <<pc, db, tst, thints, ti, jobRest, TwiceOthers>>

\* The final status from the execution's own counters, save(update_fields=
\* ["status"]).
TwFinalize(e) ==
    /\ tpc[e] = "finalize"
    /\ tst' = [tst EXCEPT ![e].status = FinalStatus(tst[e])]
    /\ db' = Persist(tst'[e], {"status"})
    /\ tpc' = [tpc EXCEPT ![e] = "done"]
    /\ UNCHANGED <<pc, blocks, thints, ti, jobRest, TwiceOthers>>

\* except Exception: status = FAILED, save(update_fields=["status"])
TwExcept(e) ==
    /\ tpc[e] = "except"
    /\ tst' = [tst EXCEPT ![e].status = FAILED]
    /\ db' = Persist(tst'[e], {"status"})
    /\ tpc' = [tpc EXCEPT ![e] = "done"]
    /\ UNCHANGED <<pc, blocks, thints, ti, jobRest, TwiceOthers>>

NextTwice ==
    \/ AcceptJob
    \/ \E e \in Execs :
          \/ TwLoad(e)
          \/ TwStart(e)
          \/ TwOutline(e)
          \/ TwHintFails(e)
          \/ TwInsert(e)
          \/ TwSaveCompleted(e)
          \/ TwReorder(e)
          \/ TwFinalize(e)
          \/ TwExcept(e)

SpecTwice == Init /\ [][NextTwice]_vars

BothEnded == \A e \in Execs : tpc[e] = "done"

\* C32: when generate_lesson_task is delivered twice for one lesson and the
\* executions overlap, every persisted snapshot of the status row has
\* completed <= total, and once both executions have ended completed equals
\* the number of stored sections.
C32_TwiceDeliveryConsistent ==
    /\ db.exists => db.completed <= db.total
    /\ BothEnded => db.completed = Cardinality(blocks)

\* C32, first half alone: completed never exceeds total in the stored row.
C32_TwiceCompletedWithinTotal == db.exists => db.completed <= db.total

\* C32, second half alone: after both executions the stored completed is the
\* number of stored sections.
C32_TwiceCompletedCountsSections ==
    BothEnded => db.completed = Cardinality(blocks)

\* What the second delivery does keep: the counters of the stored row are
\* never negative and completed never exceeds the number of stored sections.
C32_TwiceCompletedAtMostSections ==
    /\ db.total >= 0
    /\ db.completed >= 0
    /\ db.completed <= Cardinality(blocks)

\* ------------------------------------------- the credit ledger, concurrently
\* Handlers running at the same time for one user: each loads its own User
\* object, later changes remaining_generations on that object and saves it.
\* The load and the save are separate database statements.
LedgerOthers == <<jobVars, genVars, impVars, pollVars, extractVars,
                  renumberVars, submitVars, twiceVars, decVars, rateVars,
                  shuffleVars,
    notifyVars>>

LedgerProcs == 1..MaxHandlers

SpendKinds == {"generate", "improve"}

HandlerKinds == SpendKinds \cup {"payment"}

InitLedger ==
    /\ JobInit
    /\ ImproveIdle
    /\ PollIdle
    /\ ExtractIdle
    /\ RenumberIdle
    /\ SubmitIdle
    /\ TwiceIdle
    /\ DecrementIdle
    /\ RateIdle
    /\ ShuffleIdle
    /\ NotifyIdle
    /\ lstore \in 0..MaxCredits
    /\ linit = lstore
    /\ lpc = [p \in LedgerProcs |-> "idle"]
    /\ lkind = [p \in LedgerProcs |-> "none"]
    /\ lmem = [p \in LedgerProcs |-> 0]
    /\ lspent = 0
    /\ lpaid = 0

\* get_user_by_tg / User.objects.filter(telegram_id=...).first(): the handler
\* gets an object holding the stored value.
LedgerLoad(p) ==
    /\ lpc[p] = "idle"
    /\ \E k \in HandlerKinds : lkind' = [lkind EXCEPT ![p] = k]
    /\ lmem' = [lmem EXCEPT ![p] = lstore]
    /\ lpc' = [lpc EXCEPT ![p] = "loaded"]
    /\ UNCHANGED <<lstore, linit, lspent, lpaid, LedgerOthers>>

\* lesson_generate and lesson_ai_apply: with remaining <= 0 the shop is
\* offered; else user.decrement_generation() lowers the object's value and
\* saves that field.
LedgerSpend(p) ==
    /\ lpc[p] = "loaded"
    /\ lkind[p] \in SpendKinds
    /\ IF lmem[p] <= 0
       THEN /\ lpc' = [lpc EXCEPT ![p] = "refused"]
            /\ UNCHANGED <<lstore, lmem, lspent>>
       ELSE LET r == DecrementGeneration(lmem[p], 1) IN
            /\ lmem' = [lmem EXCEPT ![p] = r.remaining]
            /\ lstore' = IF r.ok THEN r.remaining ELSE lstore
            /\ lspent' = IF r.ok THEN lspent + 1 ELSE lspent
            /\ lpc' = [lpc EXCEPT ![p] = "done"]
    /\ UNCHANGED <<linit, lkind, lpaid, LedgerOthers>>

\* successful_payment_handler: user.remaining_generations = (value or 0) +
\* PRODUCT_QTY, then user.save().
LedgerPay(p) ==
    /\ lpc[p] = "loaded"
    /\ lkind[p] = "payment"
    /\ lmem' = [lmem EXCEPT ![p] = lmem[p] + PRODUCT_QTY]
    /\ lstore' = lmem'[p]
    /\ lpaid' = lpaid + 1
    /\ lpc' = [lpc EXCEPT ![p] = "done"]
    /\ UNCHANGED <<linit, lkind, lspent, LedgerOthers>>

NextLedger ==
    \E p \in LedgerProcs :
       \/ LedgerLoad(p)
       \/ LedgerSpend(p)
       \/ LedgerPay(p)

SpecLedger == InitLedger /\ [][NextLedger]_vars

LedgerQuiet == \A p \in LedgerProcs : lpc[p] \in {"idle", "done", "refused"}

\* C33: for any interleaving of spending handlers and payment handlers of one
\* user, once no handler is running the stored credits are the initial value
\* minus the successful spends plus PRODUCT_QTY per payment, and the stored
\* value is never negative.
C33_LedgerLosesNoUpdate ==
    /\ LedgerQuiet => lstore = linit - lspent + PRODUCT_QTY * lpaid
    /\ lstore >= 0

\* What the handlers do keep under every interleaving: the stored value is
\* never negative and never above what the ledger arithmetic gives when no
\* payment is involved.
C33_LedgerNeverNegative == lstore >= 0

\* The handlers between their load and their save.
LedgerLoaded == {q \in LedgerProcs : lpc[q] = "loaded"}

LedgerBalanced == lstore = linit - lspent + PRODUCT_QTY * lpaid

\* The ledger arithmetic is kept by every step of a handler that runs alone
\* between its load and its save.
C33_LedgerSerialRuns ==
    [][(/\ Cardinality(LedgerLoaded) <= 1
        /\ LedgerBalanced
        /\ \A q \in LedgerLoaded : lmem[q] = lstore)
       => LedgerBalanced']_vars

\* The positions at which a run of lesson_generate is over without having
\* enqueued the job.
EndedWithoutEnqueue ==
    hpc \in {"limited", "denied", "crashed", "no_credits", "not_found"}

\* C34: a run of the lesson generation handler that does not enqueue the job
\* deducts no credit; in particular remaining_generations is unchanged when
\* the lesson does not exist and when a GenerationStatus row already exists
\* for the lesson.
C34_NoDeductionWithoutEnqueue ==
    EndedWithoutEnqueue => (hdeducted = 0 /\ henq = 0)

\* C34 for a lesson that does not exist: the run ends without a deduction
\* (the permission check raises on the missing lesson before the deduction).
C34_MissingLessonKeepsCredits ==
    (EndedWithoutEnqueue /\ hlesson = "missing") => hdeducted = 0

\* A run that deducted without enqueueing is one that was left by an
\* exception after the deduction: the metrics step failed, or the status row
\* already existed and its creation raised.
C34_DeductionWithoutEnqueueIsCrash ==
    (EndedWithoutEnqueue /\ hdeducted > 0) => (hpc = "crashed" /\ hdeducted = 1)

\* C34 for a lesson that already has a GenerationStatus row: the run reaches
\* the creation of the row, which will raise, with no credit deducted.
C34_ExistingRowKeepsCredits ==
    (hpc = "create" /\ hrow) => hdeducted = 0

\* ------------------------------------ User.decrement_generation on its own
\* One User object and its stored row; decrement_generation is called on the
\* object again and again with any count.
DecrementOthers == <<jobVars, genVars, impVars, pollVars, extractVars,
                     renumberVars, submitVars, twiceVars, ledgerVars,
                     rateVars, shuffleVars,
    notifyVars>>

Counts == 0..MaxCount

InitDecrement ==
    /\ JobInit
    /\ ImproveIdle
    /\ PollIdle
    /\ ExtractIdle
    /\ RenumberIdle
    /\ SubmitIdle
    /\ TwiceIdle
    /\ LedgerIdle
    /\ RateIdle
    /\ ShuffleIdle
    /\ NotifyIdle
    /\ dstore \in 0..MaxBalance
    /\ dmem = dstore
    /\ dret = "none"
    /\ dcount = 0
    /\ dcalls = 0
    /\ dfaults = 0

\* self.decrement_generation(count): the test, the subtraction on the object,
\* the save of the one field (which may raise, leaving the call without a
\* returned value), the returned value.
DecrementCall ==
    /\ dcalls < MaxCalls
    /\ dcalls' = dcalls + 1
    /\ \E count \in Counts :
          LET r == DecrementGeneration(dmem, count) IN
          /\ dcount' = count
          /\ dmem' = r.remaining
          /\ IF r.ok
             THEN \/ /\ dstore' = r.remaining
                     /\ dret' = "True"
                     /\ UNCHANGED dfaults
                  \/ /\ dfaults < MaxSaveFaults
                     /\ dfaults' = dfaults + 1
                     /\ dret' = "raised"
                     /\ UNCHANGED dstore
             ELSE /\ dret' = "False"
                  /\ UNCHANGED <<dstore, dfaults>>
    /\ UNCHANGED DecrementOthers

NextDecrement == DecrementCall

SpecDecrement == InitDecrement /\ [][NextDecrement]_vars

\* C35: a call of decrement_generation(count) that returns has, with
\* remaining >= count, subtracted count from the object, stored the result and
\* returned True, and otherwise returned False with the object and the stored
\* row unchanged; after any sequence of calls the object's and the stored
\* remaining_generations are >= 0.
C35_DecrementGeneration ==
    [][DecrementCall =>
         /\ dmem' >= 0
         /\ dstore' >= 0
         /\ dret' # "raised" =>
               IF dmem >= dcount'
               THEN dret' = "True" /\ dmem' = dmem - dcount' /\ dstore' = dmem'
               ELSE dret' = "False" /\ dmem' = dmem /\ dstore' = dstore]_vars

\* Both outcomes of C35 after one another: a refused call follows a call
\* that spent the last credits.
C35_Witness ==
    /\ dret = "False"
    /\ dcalls >= 2
    /\ dmem = 0
    /\ dstore = 0
    /\ dcount > 0

\* --------------------------------------------------------- check_rate_limit
\* One redis key "ratelimit:{key}:{user_id}" and the callers of
\* check_rate_limit for it.  INCR and EXPIRE are two commands; time passes in
\* ticks and a key whose time to live runs out is deleted.  A caller may be
\* interrupted (its process ends, or EXPIRE raises) after INCR.
RateOthers == <<jobVars, genVars, impVars, pollVars, extractVars,
                renumberVars, submitVars, twiceVars, ledgerVars, decVars,
                shuffleVars,
    notifyVars>>

Callers == 1..MaxCallers

\* The window passed to check_rate_limit, in ticks of the model's clock.
WindowTicks == 2

Windows == 0..MaxWindows

InitRate ==
    /\ JobInit
    /\ ImproveIdle
    /\ PollIdle
    /\ ExtractIdle
    /\ RenumberIdle
    /\ SubmitIdle
    /\ TwiceIdle
    /\ LedgerIdle
    /\ DecrementIdle
    /\ ShuffleIdle
    /\ NotifyIdle
    /\ limit \in 1..MaxLimit
    /\ counter = 0
    /\ ttl = 0
    /\ cpc = [c \in Callers |-> "idle"]
    /\ current = [c \in Callers |-> 0]
    /\ cwindow = [c \in Callers |-> 0]
    /\ windowNo = 0
    /\ admitted = [w \in Windows |-> 0]
    /\ rejected = FALSE
    /\ interrupted = FALSE

\* current = r.incr(redis_key): an absent key counts from 0.
RateIncr(c) ==
    /\ cpc[c] = "idle"
    /\ counter < MaxCounter
    /\ counter' = counter + 1
    /\ current' = [current EXCEPT ![c] = counter + 1]
    /\ cwindow' = [cwindow EXCEPT ![c] = windowNo]
    /\ cpc' = [cpc EXCEPT ![c] = "incremented"]
    /\ UNCHANGED <<limit, ttl, windowNo, admitted, rejected, interrupted,
                   RateOthers>>

\* Variant: one call more than the limit is let through.
OverLimitLenient(value, lim) == value > lim + 1

\* if current > limit
OverLimit(value, lim) == value > lim

\* if current == 1: r.expire(redis_key, window); then PermissionDenied is
\* raised when current > limit, else the call returns.
RateFinish(c) ==
    /\ cpc[c] = "incremented"
    /\ ttl' = IF current[c] = 1 THEN WindowTicks ELSE ttl
    /\ IF OverLimit(current[c], limit)
       THEN /\ rejected' = TRUE
            /\ UNCHANGED admitted
       ELSE /\ admitted' = [admitted EXCEPT ![cwindow[c]] = @ + 1]
            /\ UNCHANGED rejected
    /\ cpc' = [cpc EXCEPT ![c] = "idle"]
    /\ UNCHANGED <<limit, counter, current, cwindow, windowNo, interrupted,
                   RateOthers>>

\* The caller ends between the two commands: INCR has counted, EXPIRE is
\* never sent, nothing is returned.
RateInterrupt(c) ==
    /\ cpc[c] = "incremented"
    /\ interrupted' = TRUE
    /\ cpc' = [cpc EXCEPT ![c] = "idle"]
    /\ UNCHANGED <<limit, counter, ttl, current, cwindow, windowNo, admitted,
                   rejected, RateOthers>>

\* One unit of time passes for a key with a time to live; at zero redis
\* deletes the key and the next INCR starts a new window.
RateTick ==
    /\ counter > 0
    /\ ttl > 0
    /\ IF ttl = 1
       THEN /\ windowNo < MaxWindows
            /\ counter' = 0
            /\ ttl' = 0
            /\ windowNo' = windowNo + 1
       ELSE /\ ttl' = ttl - 1
            /\ UNCHANGED <<counter, windowNo>>
    /\ UNCHANGED <<limit, cpc, current, cwindow, admitted, rejected,
                   interrupted, RateOthers>>

NextRate ==
    \/ RateTick
    \/ \E c \in Callers :
          \/ RateIncr(c)
          \/ RateFinish(c)
          \/ RateInterrupt(c)

SpecRate == InitRate /\ [][NextRate]_vars

\* C36: of the calls counted in one window of a (user, key) pair, the window
\* starting with the first call, at most `limit` return normally, whatever
\* the interleaving of the callers; every further call raises.
C36_AtMostLimitPerWindow ==
    /\ [](\A w \in Windows : admitted[w] <= limit)
    /\ [][\A c \in Callers :
             (RateFinish(c) /\ current[c] > limit) =>
                (admitted' = admitted /\ rejected')]_vars

\* The limit is used up in one window, a call was refused, and after the
\* expiry calls are admitted again.
C36_Witness ==
    /\ admitted[0] = limit
    /\ rejected
    /\ windowNo = 1
    /\ admitted[1] > 0

\* The key exists and no caller is about to send its EXPIRE.
CounterSettled ==
    /\ counter > 0
    /\ \A c \in Callers : ~(cpc[c] = "incremented" /\ current[c] = 1)

\* C37: every counter carries an expiry, so a rate-limited (user, key) pair
\* is admitted again after the window; also when a caller was interrupted
\* between the increment and the expiry step and when refused calls keep
\* arriving.
C37_EveryCounterExpires == CounterSettled => ttl > 0

\* C37 without interruptions: as long as no caller ended between INCR and
\* EXPIRE, every settled counter has a time to live, and refused calls do not
\* renew it.
C37_CounterExpiresUninterrupted ==
    /\ (~interrupted /\ CounterSettled) => ttl > 0
    /\ [][(\E c \in Callers : RateFinish(c) /\ OverLimit(current[c], limit))
             => ttl' = ttl]_vars

\* After an interruption of the first caller of a window the key has no time
\* to live and nothing ever gives it one: the counter only grows.
C37_InterruptedCounterStays ==
    [][(CounterSettled /\ ttl = 0) =>
          (CounterSettled' /\ ttl' = 0 /\ counter' >= counter)]_vars

\* ------------------------------------- generate_text calls at the same time
\* The list objects of the process: the module-level AI_MODELS and the list
\* each running generate_text call holds in its local `models`.  A call
\* copies, shuffles its list in place, walks it and returns; its list is then
\* dropped.
ShuffleOthers == <<jobVars, genVars, impVars, pollVars, extractVars,
                   renumberVars, submitVars, twiceVars, ledgerVars, decVars,
                   rateVars,
    notifyVars>>

\* The generate_text calls running at the same time.
GenCalls == {1, 2}

\* The list object AI_MODELS names.
CatalogRef == 0

NoRef == -1

InitShuffle ==
    /\ JobInit
    /\ ImproveIdle
    /\ PollIdle
    /\ ExtractIdle
    /\ RenumberIdle
    /\ SubmitIdle
    /\ TwiceIdle
    /\ LedgerIdle
    /\ DecrementIdle
    /\ RateIdle
    /\ NotifyIdle
    /\ ShuffleIdle

\* Variant: models = AI_MODELS, the same list object under a second name.
CopyRefAliased(fresh) == CatalogRef

\* AI_MODELS.copy(): a new list object.
CopyRef(fresh) == fresh

\* models = AI_MODELS.copy(): the new list holds the catalog's entries in the
\* catalog's order.
GenCallCopy(c) ==
    /\ gcpc[c] = "idle"
    /\ cref' = [cref EXCEPT ![c] = CopyRef(c)]
    /\ heap' = [heap EXCEPT ![cref'[c]] = heap[CatalogRef]]
    /\ gcpc' = [gcpc EXCEPT ![c] = "copied"]
    /\ UNCHANGED ShuffleOthers

\* random.shuffle(models): the list object `models` names is reordered in
\* place.
GenCallShuffle(c) ==
    /\ gcpc[c] = "copied"
    /\ \E order \in Shuffles(heap[cref[c]]) :
          heap' = [heap EXCEPT ![cref[c]] = order]
    /\ gcpc' = [gcpc EXCEPT ![c] = "shuffled"]
    /\ UNCHANGED <<cref, ShuffleOthers>>

\* The loops over `models` only read the entries; the call returns or raises
\* and its list is dropped.
GenCallReturn(c) ==
    /\ gcpc[c] = "shuffled"
    /\ heap' = IF cref[c] = CatalogRef THEN heap
               ELSE [heap EXCEPT ![cref[c]] = <<>>]
    /\ cref' = [cref EXCEPT ![c] = NoRef]
    /\ gcpc' = [gcpc EXCEPT ![c] = "idle"]
    /\ UNCHANGED ShuffleOthers

NextShuffle ==
    \E c \in GenCalls :
       \/ GenCallCopy(c)
       \/ GenCallShuffle(c)
       \/ GenCallReturn(c)

SpecShuffle == InitShuffle /\ [][NextShuffle]_vars

SameEntries(list, other) ==
    /\ Len(list) = Len(other)
    /\ \A k \in 1..Len(other) :
          Cardinality({j \in 1..Len(list) : list[j] = other[k]}) = 1

\* C38: no generate_text call, and no set of calls running at the same time,
\* changes the content or the order of the shared catalog; each call
\* reorders a list of its own that holds the catalog's entries.
C38_CatalogImmutable ==
    /\ heap[CatalogRef] = AI_MODELS
    /\ \A c \in GenCalls :
          gcpc[c] # "idle" =>
             /\ cref[c] # CatalogRef
             /\ \A d \in GenCalls \ {c} : cref[d] # cref[c]
             /\ SameEntries(heap[cref[c]], AI_MODELS)

\* Two calls hold their shuffled lists at the same time, in orders that
\* differ from each other and from the catalog's.
C38_Witness ==
    /\ \A c \in GenCalls : gcpc[c] = "shuffled"
    /\ heap[cref[1]] # heap[cref[2]]
    /\ \A c \in GenCalls : heap[cref[c]] # AI_MODELS
    /\ heap[CatalogRef] = AI_MODELS

\* ------------------------------- notify_unopened_and_undownloaded_lessons
\* One lesson with blocks, the latest of its creator, over the periodic runs
\* of the task.  Between runs the creator may open or download the lesson.
NotifyOthers == <<jobVars, genVars, impVars, pollVars, extractVars,
                  renumberVars, submitVars, twiceVars, ledgerVars, decVars,
                  rateVars, shuffleVars>>

\* What user.metrics.last_active_at is at a run: missing, after the
\* threshold, or before it.
LastActive == {"none", "recent", "old"}

InitNotify ==
    /\ JobInit
    /\ ImproveIdle
    /\ PollIdle
    /\ ExtractIdle
    /\ RenumberIdle
    /\ SubmitIdle
    /\ TwiceIdle
    /\ LedgerIdle
    /\ DecrementIdle
    /\ RateIdle
    /\ ShuffleIdle
    /\ NotifyIdle

\* The queryset's filter: not opened and not notified of it, or not
\* downloaded and not notified of it.
NeedsNotification(l) ==
    \/ ~l.discover_notified /\ ~l.is_discovered
    \/ ~l.download_notified /\ ~l.is_downloaded

\* if lesson.notify_attempts >= MAX_ATTEMPTS
AttemptsExhausted(l) == l.notify_attempts >= MAX_ATTEMPTS

\* Which button is sent: "view" first, else "download".
ToSend(l) ==
    IF ~l.is_discovered /\ ~l.discover_notified THEN "view"
    ELSE IF ~l.is_downloaded /\ ~l.download_notified THEN "download"
    ELSE "nothing"

\* What the run does with the lesson, before anything is sent or saved.
RunKind(l, last_active) ==
    IF ~NeedsNotification(l) THEN "not_selected"
    ELSE IF AttemptsExhausted(l) THEN "exhausted"
    ELSE IF last_active = "none" THEN "no_activity"
    ELSE IF last_active = "recent" THEN "recent"
    ELSE IF ToSend(l) = "nothing" THEN "nothing"
    ELSE "send"

\* The lesson object after the run's assignments.
RunObject(l, kind, sent) ==
    IF kind = "no_activity" \/ (kind = "send" /\ ~sent)
    THEN [l EXCEPT !.notify_attempts = l.notify_attempts + 1]
    ELSE IF kind = "send" /\ ToSend(l) = "view"
    THEN [l EXCEPT !.discover_notified = TRUE]
    ELSE IF kind = "send"
    THEN [l EXCEPT !.download_notified = TRUE]
    ELSE l

\* One run of the task for the lesson: the checks, the send (a raised
\* exception counts as a failed send), the assignments and the save, whose
\* exception is logged and leaves the row as it was.
NotifyRun ==
    /\ nruns < MaxNotifyRuns
    /\ nruns' = nruns + 1
    /\ \E last_active \in LastActive, sent \in BOOLEAN, saved \in BOOLEAN :
          LET kind == RunKind(lrow, last_active)
              obj == RunObject(lrow, kind, sent)
              saves == kind \in {"no_activity", "send"}
          IN /\ kind = "send" \/ sent
             /\ saves \/ saved
             /\ saved \/ nfaults < MaxNotifyFaults
             /\ nfaults' = IF saved THEN nfaults ELSE nfaults + 1
             /\ lrow' = IF saved THEN obj ELSE lrow
             /\ sentView' = IF kind = "send" /\ sent /\ ToSend(lrow) = "view"
                            THEN sentView + 1 ELSE sentView
             /\ sentDownload' =
                   IF kind = "send" /\ sent /\ ToSend(lrow) = "download"
                   THEN sentDownload + 1 ELSE sentDownload
             /\ nlast' = IF kind = "send" /\ ~sent THEN "send_failed"
                         ELSE IF kind = "send" THEN "sent"
                         ELSE kind
    /\ UNCHANGED NotifyOthers

\* mark_lesson_discovered: the creator opens the lesson.
MarkLessonDiscovered ==
    /\ ~lrow.is_discovered
    /\ lrow' = [lrow EXCEPT !.is_discovered = TRUE]
    /\ UNCHANGED <<nruns, nfaults, sentView, sentDownload, nlast, NotifyOthers>>

\* mark_lesson_downloaded: the creator downloads the lesson.
MarkLessonDownloaded ==
    /\ ~lrow.is_downloaded
    /\ lrow' = [lrow EXCEPT !.is_downloaded = TRUE]
    /\ UNCHANGED <<nruns, nfaults, sentView, sentDownload, nlast, NotifyOthers>>

NextNotify ==
    \/ NotifyRun
    \/ MarkLessonDiscovered
    \/ MarkLessonDownloaded

SpecNotify == InitNotify /\ [][NextNotify]_vars

\* The run sent nothing.
NothingSent == sentView' = sentView /\ sentDownload' = sentDownload

\* The stored notify_attempts grew by one in this step.
AttemptsGrew == lrow'.notify_attempts = lrow.notify_attempts + 1

\* C39: for each lesson at most one 'view' and one 'download' notification is
\* sent successfully, none is sent once notify_attempts has reached 3, and
\* notify_attempts grows by 1 exactly on a run whose send failed or whose
\* creator has no last_active_at.
C39_NotifyAtMostOnce ==
    /\ [](sentView <= 1 /\ sentDownload <= 1)
    /\ [][(NotifyRun /\ lrow.notify_attempts >= MAX_ATTEMPTS)
             => NothingSent]_vars
    /\ [][NotifyRun =>
             /\ AttemptsGrew <=> nlast' \in {"send_failed", "no_activity"}
             /\ AttemptsGrew \/ lrow'.notify_attempts = lrow.notify_attempts]_vars

\* C39, first part alone: at most one successful send of each kind.
C39_AtMostOneOfEachKind == sentView <= 1 /\ sentDownload <= 1

\* C39 in the runs whose save does not raise: all three parts hold.
C39_NotifyAtMostOnceWhenSaved ==
    /\ [](nfaults = 0 => (sentView <= 1 /\ sentDownload <= 1))
    /\ [][(NotifyRun /\ nfaults' = 0) =>
             /\ AttemptsGrew <=> nlast' \in {"send_failed", "no_activity"}
             /\ AttemptsGrew \/ lrow'.notify_attempts = lrow.notify_attempts]_vars

\* C39, second part alone, with or without failing saves: nothing is sent
\* for a lesson whose notify_attempts has reached 3, and the count never
\* passes 3.
C39_NothingSentAfterMaxAttempts ==
    /\ [](lrow.notify_attempts <= MAX_ATTEMPTS)
    /\ [][(NotifyRun /\ lrow.notify_attempts >= MAX_ATTEMPTS)
             => (NothingSent /\ lrow' = lrow)]_vars

====
